---- MODULE Spec2Model ----
(***************************************************************************)
(* A model of the wire package: 3d points, point lists, segments, shapes,  *)
(* the world (camera) parameters and the drawing context.                  *)
(*                                                                         *)
(* Go pointers are object identities.  *Point is an index into the heap    *)
(* `points`, *Segment an index into the heap `segs`, *Shape an index into  *)
(* `shapes`.  A PointList ([]*Point) is a sequence of point identities, so *)
(* two lists that hold the same identity share the point.                  *)
(*                                                                         *)
(* float64 coordinates are taken on the integer grid, where the arithmetic *)
(* used here (+, -, *, comparison) is exact.  Square roots never appear:   *)
(* lengths are compared by their squares.  The projection cache of a point *)
(* (Px, Py, Scaling) holds quotients, kept as pairs <<numerator,           *)
(* denominator>>.                                                          *)
(***************************************************************************)
EXTENDS Integers, Sequences, FiniteSets, TLC

VARIABLES
    points,     \* heap of Point objects: Seq of [X, Y, Z, Px, Py, Scaling]
    segs,       \* heap of Segment objects: Seq of [PointA, PointB]
    shapes,     \* heap of Shape objects: Seq of [Points, Segments]
    world,      \* the package variable world (camera, clipping, fog, colour)
    context,    \* the state of the drawing context: line width, source colour
                \* and the stack of states pushed by Save
    file,       \* the shape file: whether it exists, and its lines
    calls,      \* the calls the last drawing operation issued, in order
    crashed,    \* a run-time panic has stopped the program
    last,       \* history: the last operation, its arguments and the heaps before it
    origin,     \* history: origin[c] is the shape that c was cloned from by Clone, or 0
    nOps,       \* history: number of operations called so far
    running     \* the call of ThinPoints that is under way, statement by statement:
                \* its position and its local variables

vars == <<points, segs, shapes, world, context, file, calls, crashed, last, origin, nOps,
          running>>

(***************************************************************************)
(* Bounds of the model and the inputs the operations are called with.      *)
(***************************************************************************)
MaxOps == 3

\* Number of nested calls the stack of the program has room for.
MaxStack == 3

\* 2d paths handed to ShapeFrom2dPath (geom.PointList): a segment of length
\* 24, and two legs of a right triangle with sides 24, 18 and 30.
Paths ==
    { << <<0, 0>>, <<24, 0>> >>,
      << <<0, 0>>, <<24, 0>>, <<24, 18>> >> }

\* Coordinates handed to AddXYZ.
Coords == { <<0, 18, 6>> }

\* <<a, b>> handed to AddSegmentByIndex.
IndexPairs == { <<1, 0>>, <<0, 2>> }

\* The cull and split functions handed to Cull, Culled and Split.
CullFuncs == { [name |-> "X>0", neg |-> FALSE], [name |-> "Y>0", neg |-> FALSE] }

\* Boxes handed to CullBox: <<minX, minY, minZ, maxX, maxY, maxZ>>.
Boxes == { <<12, 0, 0, 24, 18, 0>> }

\* <<take, skip>> handed to ThinPoints.
Thins == { <<1, 1>>, <<2, 1>>, <<1, 2>>, <<0, 2>> }

\* <<take, skip>> handed to the ThinPoints that runs statement by statement.
ThinSteps == { <<0, 0>>, <<2, 1>>, <<0, 2>>, <<1, 0>> }

\* maxDist handed to Subdivide.
MaxDists == { 18, 8 }

\* <<tx, ty, tz>> handed to Translate.
Translations == { <<1, -2, 3>> }

\* <<x, y, z>> handed to SetCenter.
Centers == { <<0, 0, 100>> }

\* width handed to Stroke.
Widths == { 1 }

\* The line width of the drawing context when the program starts.
LineWidths == { 2 }

\* <<cx, cy, cz>> handed to InitWorld and SetCenter where clipping is checked:
\* with the clipping <<100, 101>> each limit is met from both sides by points
\* with z 0 and z 1.
RenderCenters == { <<5, -3, 99>>, <<0, 0, 100>>, <<0, 0, 101>> }

\* <<near, far>> handed to SetClipping when the program starts, and later.
StartClippings == { <<100, 101>> }
Clippings == { <<100, 100000>> }

\* <<x, y, z>> handed to AddXYZ where clipping is checked.
RenderCoords == { <<0, 18, 1>> }

\* <<active, near, far>> handed to SetFog, <<active, top, bottom>> to SetWaterLevel.
Fogs == { <<TRUE, 0, 200>> }
WaterLevels == { <<TRUE, 0, 36>> }

\* <<active, near, far>> handed to SetFog and <<active, top, bottom>> handed to
\* SetWaterLevel where the shading is looked at: with the clipping planes at
\* 100 and 101 a drawn depth is between, at or outside the two fog planes, and
\* a height of 0 or 18 is at the top, between, or at or below the bottom.
ShadeFogs == { <<TRUE, 0, 400>>, <<TRUE, 101, 200>>, <<TRUE, 0, 100>>, <<FALSE, 0, 100>> }

ShadeWaterLevels == { <<TRUE, 0, 36>>, <<TRUE, -36, 0>>, <<FALSE, -36, 0>> }

\* radius handed to RenderPoints.
Radii == { 2 }

\* index handed to PointList.Get.
Indexes == { -2, -1, 0, 1, 4 }

\* Coordinates of the shapes that are saved, as quotients: whole numbers, a
\* half, and 1/2^20, which has more than six digits after the point.
FileCoords == { <<<<3, 1>>, <<-2, 1>>, <<0, 1>>>>,
                <<<<5, 2>>, <<1, 1048576>>, <<1, 1>>>> }

FileThins == { <<1, 1>> }

\* Coordinates of the points of the lists that are interpolated, rotated,
\* scaled and sorted, as quotients: two points with the same x.
ListCoords == { <<<<3, 1>>, <<-2, 1>>, <<0, 1>>>>,
                <<<<3, 1>>, <<4, 1>>, <<1, 1>>>> }

\* Lengths of the second list, the one a list is interpolated towards.
OtherLengths == { 1, 2 }

\* t handed to Lerp and scale handed to ScaledZ.
LerpTs == { <<1, 2>> }

Scales == { <<2, 1>> }

\* Angles, by cosine and sine: no turn, a quarter turn, and the angle of the
\* triangle with sides 3, 4 and 5.
NoTurn == [cos |-> <<1, 1>>, sin |-> <<0, 1>>]

QuarterTurn == [cos |-> <<0, 1>>, sin |-> <<1, 1>>]

Turn345 == [cos |-> <<3, 5>>, sin |-> <<4, 5>>]

Angles == { QuarterTurn, Turn345 }

\* <<rx, ry, rz>> handed to Rotate.
Rotations == { <<QuarterTurn, Turn345, NoTurn>>, <<Turn345, QuarterTurn, QuarterTurn>> }

\* <<radius1, radius2>> handed to AddRandomPointOnTorus and
\* AddRandomPointInTorus.
Tori == { <<10, 2>> }

Axes == { "X", "Y", "Z" }

FilePairs == { <<0, 1>>, <<1, 1>> }

(***************************************************************************)
(* Helpers.                                                                *)
(***************************************************************************)
Range(f) == { f[i] : i \in DOMAIN f }

\* The heaps an operation works on, threaded through the operators below.
Mem ==
    [points |-> points, segs |-> segs, shapes |-> shapes, crashed |-> crashed,
     world |-> world, context |-> context, file |-> file, calls |-> calls]

\* A run-time panic (index out of range).
Panic(m) == [m EXCEPT !.crashed = TRUE]

\* Quotients n/d as pairs <<n, d>>; d = 0 is the result of a division by zero.
Zero == <<0, 1>>
Whole(n) == <<n, 1>>
Quot(a, b) == <<a[1] * b[2], a[2] * b[1]>>
Times(a, b) == <<a[1] * b[1], a[2] * b[2]>>
Plus(a, b) == <<a[1] * b[2] + b[1] * a[2], a[2] * b[2]>>
Same(a, b) == a[2] # 0 /\ b[2] # 0 /\ a[1] * b[2] = b[1] * a[2]

\* slices.Index: the first 0-based index of v in list, -1 when absent.
SlicesIndex(list, v) ==
    IF \E i \in 1..Len(list) : list[i] = v
    THEN (CHOOSE i \in 1..Len(list) :
            list[i] = v /\ \A j \in 1..(i - 1) : list[j] # v) - 1
    ELSE -1

\* A func(*Point) bool argument, applied to a point object.
ApplyName(name, p) ==
    CASE name = "X>0" -> p.X > 0
      [] name = "Y>0" -> p.Y > 0

CullFunc(f, p) == IF f.neg THEN ~ApplyName(f.name, p) ELSE ApplyName(f.name, p)

\* func(p *Point) bool { return !split(p) }
NotFunc(f) == [f EXCEPT !.neg = ~f.neg]

(***************************************************************************)
(* Point.                                                                  *)
(***************************************************************************)
NewPoint(x, y, z) ==
    [X |-> x, Y |-> y, Z |-> z, Px |-> Zero, Py |-> Zero, Scaling |-> Zero]

PointClone(p) ==
    [X |-> p.X, Y |-> p.Y, Z |-> p.Z, Px |-> p.Px, Py |-> p.Py, Scaling |-> p.Scaling]

PointTranslate(p, tx, ty, tz) ==
    [p EXCEPT !.X = @ + tx, !.Y = @ + ty, !.Z = @ + tz]

PointTranslated(p, tx, ty, tz) == PointTranslate(PointClone(p), tx, ty, tz)

(***************************************************************************)
(* Segment.                                                                *)
(***************************************************************************)
NewSegment(a, b) == [PointA |-> a, PointB |-> b]

(***************************************************************************)
(* PointList.                                                              *)
(***************************************************************************)
\* A clone that is the list itself: what a shallow copy would return.
PointListShared(m, list) == [m |-> m, list |-> list]

\* Clones every point of the list into the heap; the new list holds the clones.
PointListClone(m, list) ==
    [m    |-> [m EXCEPT !.points =
                  @ \o [i \in 1..Len(list) |-> PointClone(m.points[list[i]])]],
     list |-> [i \in 1..Len(list) |-> Len(m.points) + i]]

RECURSIVE PointListCullFrom(_, _, _, _, _)
PointListCullFrom(m, list, f, i, newList) ==
    IF i > Len(list) THEN newList
    ELSE PointListCullFrom(m, list, f, i + 1,
            IF CullFunc(f, m.points[list[i]]) THEN Append(newList, list[i])
            ELSE newList)

PointListCull(m, list, f) == PointListCullFrom(m, list, f, 1, <<>>)

InBox(p, minX, minY, minZ, maxX, maxY, maxZ) ==
    /\ p.X >= minX /\ p.X <= maxX
    /\ p.Y >= minY /\ p.Y <= maxY
    /\ p.Z >= minZ /\ p.Z <= maxZ

RECURSIVE PointListCullBoxFrom(_, _, _, _, _)
PointListCullBoxFrom(m, list, b, i, newList) ==
    IF i > Len(list) THEN newList
    ELSE PointListCullBoxFrom(m, list, b, i + 1,
            IF InBox(m.points[list[i]], b[1], b[2], b[3], b[4], b[5], b[6])
            THEN Append(newList, list[i])
            ELSE newList)

PointListCullBox(m, list, minX, minY, minZ, maxX, maxY, maxZ) ==
    PointListCullBoxFrom(m, list, <<minX, minY, minZ, maxX, maxY, maxZ>>, 1, <<>>)

\* Translates the point of every entry of the list, in list order.
RECURSIVE PointListTranslateFrom(_, _, _, _, _, _)
PointListTranslateFrom(m, list, tx, ty, tz, i) ==
    IF i > Len(list) THEN m
    ELSE PointListTranslateFrom(
            [m EXCEPT !.points[list[i]] = PointTranslate(@, tx, ty, tz)],
            list, tx, ty, tz, i + 1)

PointListTranslate(m, list, tx, ty, tz) == PointListTranslateFrom(m, list, tx, ty, tz, 1)

(***************************************************************************)
(* Shape: construction.                                                    *)
(***************************************************************************)
\* The new shape is the last of m.shapes.
NewShape(m) == [m EXCEPT !.shapes = Append(@, [Points |-> <<>>, Segments |-> <<>>])]

AddXYZ(m, s, x, y, z) ==
    LET m1 == [m EXCEPT !.points = Append(@, NewPoint(x, y, z))]
    IN  [m1 EXCEPT !.shapes[s].Points = Append(@, Len(m1.points))]

AddPoint(m, s, point) == [m EXCEPT !.shapes[s].Points = Append(@, point)]

AddSegmentByPoints(m, s, a, b) ==
    LET m1 == [m EXCEPT !.segs = Append(@, NewSegment(a, b))]
    IN  [m1 EXCEPT !.shapes[s].Segments = Append(@, Len(m1.segs))]

\* s.Points[a] and s.Points[b] panic when an index is out of range.
AddSegmentByIndex(m, s, a, b) ==
    LET n == Len(m.shapes[s].Points)
    IN  IF a \in 0..(n - 1) /\ b \in 0..(n - 1)
        THEN AddSegmentByPoints(m, s, m.shapes[s].Points[a + 1], m.shapes[s].Points[b + 1])
        ELSE Panic(m)

\* An AddShape that appends copies of the other shape's points.
AddShapeCopied(m, s, shape) ==
    LET pl == PointListClone(m, m.shapes[shape].Points)
    IN  [pl.m EXCEPT !.shapes[s] =
            [Points   |-> @.Points \o pl.list,
             Segments |-> @.Segments \o m.shapes[shape].Segments]]

AddShape(m, s, shape) ==
    [m EXCEPT !.shapes[s] =
        [Points   |-> @.Points \o m.shapes[shape].Points,
         Segments |-> @.Segments \o m.shapes[shape].Segments]]

RECURSIVE PathPointsFrom(_, _, _, _)
PathPointsFrom(m, s, path, i) ==
    IF i > Len(path) THEN m
    ELSE PathPointsFrom(AddXYZ(m, s, path[i][1], path[i][2], 0), s, path, i + 1)

RECURSIVE PathSegmentsFrom(_, _, _, _)
PathSegmentsFrom(m, s, path, i) ==
    IF i >= Len(path) - 1 THEN m
    ELSE PathSegmentsFrom(AddSegmentByIndex(m, s, i, i + 1), s, path, i + 1)

\* The path is not empty (Points.Last() of an empty list panics).
ShapeFrom2dPath(m, path, closed) ==
    LET m0 == NewShape(m)
        s  == Len(m0.shapes)
        m1 == PathPointsFrom(m0, s, path, 1)
        m2 == PathSegmentsFrom(m1, s, path, 0)
        pl == m2.shapes[s].Points
    IN  IF closed THEN AddSegmentByPoints(m2, s, pl[Len(pl)], pl[1]) ELSE m2

(***************************************************************************)
(* Shape: Clone, Cull, Culled, CullBox, ThinPoints, Split, Subdivide.      *)
(***************************************************************************)
RECURSIVE CloneSegmentsFrom(_, _, _, _)
CloneSegmentsFrom(m, s, clone, k) ==
    IF m.crashed \/ k > Len(m.shapes[s].Segments) THEN m
    ELSE LET seg    == m.segs[m.shapes[s].Segments[k]]
             indexA == SlicesIndex(m.shapes[s].Points, seg.PointA)
             indexB == SlicesIndex(m.shapes[s].Points, seg.PointB)
         IN  CloneSegmentsFrom(AddSegmentByIndex(m, clone, indexA, indexB), s, clone, k + 1)

\* A Clone whose segment list is in the opposite order.
CloneReversed(m, s) ==
    LET m0    == NewShape(m)
        clone == Len(m0.shapes)
        pl    == PointListClone(m0, m0.shapes[s].Points)
        m1    == [pl.m EXCEPT !.shapes[clone].Points = pl.list]
        m2    == CloneSegmentsFrom(m1, s, clone, 1)
        sl    == m2.shapes[clone].Segments
    IN  IF m2.crashed THEN m2
        ELSE [m2 EXCEPT !.shapes[clone].Segments =
                [k \in 1..Len(sl) |-> sl[Len(sl) + 1 - k]]]

\* The clone is the last of the result's shapes.
Clone(m, s) ==
    LET m0    == NewShape(m)
        clone == Len(m0.shapes)
        pl    == PointListClone(m0, m0.shapes[s].Points)
        m1    == [pl.m EXCEPT !.shapes[clone].Points = pl.list]
    IN  CloneSegmentsFrom(m1, s, clone, 1)

RECURSIVE CullSegmentsFrom(_, _, _, _, _)
CullSegmentsFrom(m, list, f, k, kept) ==
    IF k > Len(list) THEN kept
    ELSE CullSegmentsFrom(m, list, f, k + 1,
            IF /\ CullFunc(f, m.points[m.segs[list[k]].PointA])
               /\ CullFunc(f, m.points[m.segs[list[k]].PointB])
            THEN Append(kept, list[k])
            ELSE kept)

\* A Cull that filters the points and leaves the segments.
CullPoints(m, s, f) ==
    [m EXCEPT !.shapes[s].Points = PointListCull(m, @, f)]

Cull(m, s, f) ==
    [m EXCEPT !.shapes[s] =
        [Points   |-> PointListCull(m, @.Points, f),
         Segments |-> CullSegmentsFrom(m, @.Segments, f, 1, <<>>)]]

\* The culled clone is the last of the result's shapes.
Culled(m, s, f) ==
    LET m1 == Clone(m, s)
    IN  IF m1.crashed THEN m1 ELSE Cull(m1, Len(m1.shapes), f)

CullBox(m, s, minX, minY, minZ, maxX, maxY, maxZ) ==
    [m EXCEPT !.shapes[s].Points =
        PointListCullBox(m, @, minX, minY, minZ, maxX, maxY, maxZ)]

\* `for range n` runs max(n, 0) times.
RangeCount(n) == IF n > 0 THEN n ELSE 0

\* The loops of ThinPoints: i is the index into list, t and k the iterations
\* left of the take and of the skip loop.
RECURSIVE ThinOuter(_, _, _, _, _)
RECURSIVE ThinTake(_, _, _, _, _, _)
RECURSIVE ThinSkip(_, _, _, _, _, _)
ThinOuter(list, i, pts, take, skip) ==
    IF i < Len(list) THEN ThinTake(list, i, pts, take, skip, RangeCount(take))
    ELSE pts

ThinTake(list, i, pts, take, skip, t) ==
    IF t = 0 THEN ThinSkip(list, i, pts, take, skip, RangeCount(skip))
    ELSE IF i >= Len(list) THEN pts
    ELSE ThinTake(list, i + 1, Append(pts, list[i + 1]), take, skip, t - 1)

ThinSkip(list, i, pts, take, skip, k) ==
    IF k = 0 THEN ThinOuter(list, i, pts, take, skip)
    ELSE IF i >= Len(list) THEN pts
    ELSE ThinSkip(list, i + 1, pts, take, skip, k - 1)

\* A ThinPoints that skips first and takes second.
ThinPointsSkipFirst(m, s, take, skip) ==
    [m EXCEPT !.shapes[s].Points = ThinOuter(@, 0, <<>>, skip, take)]

\* Called with take > 0 or skip > 0.
ThinPoints(m, s, take, skip) ==
    [m EXCEPT !.shapes[s].Points = ThinOuter(@, 0, <<>>, take, skip)]

\* A Split that leaves the receiver as it was.
SplitKeeping(m, s, f) == Culled(m, s, f)

\* The split-off shape is the last of the result's shapes.
Split(m, s, f) ==
    LET m1 == Culled(m, s, f)
    IN  IF m1.crashed THEN m1 ELSE Cull(m1, s, NotFunc(f))

Translate(m, s, tx, ty, tz) == PointListTranslate(m, m.shapes[s].Points, tx, ty, tz)

\* The squared length of the segment from point a to point b.
Length2(a, b) ==
    (b.X - a.X) * (b.X - a.X) + (b.Y - a.Y) * (b.Y - a.Y) + (b.Z - a.Z) * (b.Z - a.Z)

\* math.Round(math.Sqrt(d2) / maxDist) for maxDist > 0.  Round rounds half away
\* from zero, so the result is the least n >= 0 with sqrt(d2)/maxDist < n + 1/2,
\* which is 4 * d2 < (2n + 1)^2 * maxDist^2.
RECURSIVE RoundFrom(_, _, _)
RoundFrom(d2, maxDist, n) ==
    IF 4 * d2 < (2 * n + 1) * (2 * n + 1) * maxDist * maxDist THEN n
    ELSE RoundFrom(d2, maxDist, n + 1)

RoundSqrtOver(d2, maxDist) == RoundFrom(d2, maxDist, 0)

\* The inner loop of Subdivide: for i := 1.0; i < count; i++.
RECURSIVE SubdivideChain(_, _, _, _, _, _, _, _)
SubdivideChain(m, s, first, d, count, i, p0, newSegs) ==
    IF i >= count THEN [m |-> m, p0 |-> p0, newSegs |-> newSegs]
    ELSE LET m1 == [m EXCEPT !.points = Append(@,
                        PointTranslated(m.points[first], (d[1] \div count) * i,
                                        (d[2] \div count) * i, (d[3] \div count) * i))]
             p1 == Len(m1.points)
             m2 == AddPoint(m1, s, p1)
             m3 == [m2 EXCEPT !.segs = Append(@, NewSegment(p0, p1))]
         IN  SubdivideChain(m3, s, first, d, count, i + 1, p1, Append(newSegs, Len(m3.segs)))

\* The outer loop of Subdivide, over the segments the shape had at the call.
RECURSIVE SubdivideFrom(_, _, _, _, _, _)
SubdivideFrom(m, s, maxDist, old, k, newSegs) ==
    IF k > Len(old) THEN [m EXCEPT !.shapes[s].Segments = newSegs]
    ELSE LET seg   == m.segs[old[k]]
             a     == m.points[seg.PointA]
             b     == m.points[seg.PointB]
             d     == <<b.X - a.X, b.Y - a.Y, b.Z - a.Z>>
             count == RoundSqrtOver(Length2(a, b), maxDist)
             r     == SubdivideChain(m, s, seg.PointA, d, count, 1, seg.PointA, newSegs)
             m1    == [r.m EXCEPT !.segs = Append(@, NewSegment(r.p0, seg.PointB))]
         IN  SubdivideFrom(m1, s, maxDist, old, k + 1, Append(r.newSegs, Len(m1.segs)))

\* Subdivides for twice the distance.
SubdivideDoubled(m, s, maxDist) ==
    SubdivideFrom(m, s, 2 * maxDist, m.shapes[s].Segments, 1, <<>>)

\* Called with maxDist > 0.
Subdivide(m, s, maxDist) == SubdivideFrom(m, s, maxDist, m.shapes[s].Segments, 1, <<>>)

\* The inputs of Subdivide on which dx/count*i, dy/count*i and dz/count*i are
\* whole numbers, so that the new points are on the grid.
SubdivideOnGrid(m, s, maxDist) ==
    \A k \in 1..Len(m.shapes[s].Segments) :
        LET seg   == m.segs[m.shapes[s].Segments[k]]
            a     == m.points[seg.PointA]
            b     == m.points[seg.PointB]
            count == RoundSqrtOver(Length2(a, b), maxDist)
        IN  count > 1 =>
                /\ (b.X - a.X) % count = 0
                /\ (b.Y - a.Y) % count = 0
                /\ (b.Z - a.Z) % count = 0

(***************************************************************************)
(* World, projection and drawing.                                          *)
(***************************************************************************)
FL == 300
NearZ == 100
FarZ == 100000
NearFog == 400
FarFog == 1200
WaterLevelTop == 400
WaterLevelBottom == 1200

\* var world = worldDef{...}
WorldDefault ==
    [FL |-> FL, CX |-> 0, CY |-> 0, CZ |-> 0, NearZ |-> NearZ, FarZ |-> FarZ,
     Fog |-> FALSE, NearFog |-> NearFog, FarFog |-> FarFog,
     Water |-> FALSE, WaterLevelTop |-> WaterLevelTop, WaterLevelBottom |-> WaterLevelBottom,
     R |-> 1, G |-> 1, B |-> 1]

SetCenter(m, x, y, z) == [m EXCEPT !.world.CX = x, !.world.CY = y, !.world.CZ = z]

SetRGB(m, r, g, b) == [m EXCEPT !.world.R = r, !.world.G = g, !.world.B = b]

SetClipping(m, near, far) == [m EXCEPT !.world.NearZ = near, !.world.FarZ = far]

SetFog(m, active, near, far) ==
    [m EXCEPT !.world.Fog = active, !.world.NearFog = near, !.world.FarFog = far]

SetWaterLevel(m, active, top, bottom) ==
    [m EXCEPT !.world.Water = active, !.world.WaterLevelTop = top,
              !.world.WaterLevelBottom = bottom]

\* context.GetSourceRGB() of a colour whose components are whole numbers.
GetSourceRGB(m) == [i \in 1..3 |-> m.context.Source[i][1] \div m.context.Source[i][2]]

InitWorld(m, cx, cy, cz) ==
    LET rgb == GetSourceRGB(m)
    IN  SetCenter(SetRGB(m, rgb[1], rgb[2], rgb[3]), cx, cy, cz)

\* A call of a method of the drawing context, or the entry of a method of a
\* point or a segment (id), appended to the record of calls.
Called(m, op, id, args) ==
    [m EXCEPT !.calls = Append(@, [op |-> op, id |-> id, args |-> args])]

\* A Project that leaves the camera's position out of the scale.
PointProjectUncentred(w, p) ==
    LET scale == Quot(Whole(w.FL), Whole(p.Z))
    IN  [p EXCEPT !.Px = Plus(Whole(w.CX), Times(Whole(p.X), scale)),
                  !.Py = Plus(Whole(w.CY), Times(Whole(p.Y), scale)),
                  !.Scaling = scale]

PointProject(w, p) ==
    LET scale == Quot(Whole(w.FL), Whole(w.CZ + p.Z))
    IN  [p EXCEPT !.Px = Plus(Whole(w.CX), Times(Whole(p.X), scale)),
                  !.Py = Plus(Whole(w.CY), Times(Whole(p.Y), scale)),
                  !.Scaling = scale]

\* A Visible that clips a point at the near limit.
PointVisibleBeyond(w, p) ==
    IF p.Z + w.CZ <= w.NearZ THEN FALSE
    ELSE IF p.Z + w.CZ > w.FarZ THEN FALSE
    ELSE TRUE

PointVisible(w, p) ==
    IF p.Z + w.CZ < w.NearZ THEN FALSE
    ELSE IF p.Z + w.CZ > w.FarZ THEN FALSE
    ELSE TRUE

\* Projects the point of every entry of the list, in list order.
RECURSIVE PointListProjectFrom(_, _, _)
PointListProjectFrom(m, list, i) ==
    IF i > Len(list) THEN m
    ELSE PointListProjectFrom(
            [Called(m, "Point.Project", list[i], <<>>)
                EXCEPT !.points[list[i]] = PointProject(m.world, @)],
            list, i + 1)

PointListProject(m, list) == PointListProjectFrom(m, list, 1)

\* FogAmount(objectZ) for objectZ = z2 / 2 and NearFog < FarFog:
\* blmath.Clamp(blmath.Map(objectZ + CZ, NearFog, FarFog, 1, 0), 0, 1).
FogAmount(w, z2) ==
    IF ~w.Fog THEN Whole(1)
    ELSE LET v2 == z2 + 2 * w.CZ
         IN  IF v2 <= 2 * w.NearFog THEN Whole(1)
             ELSE IF v2 >= 2 * w.FarFog THEN Whole(0)
             ELSE <<2 * w.FarFog - v2, 2 * (w.FarFog - w.NearFog)>>

SetLineWidth(m, width) ==
    [Called(m, "SetLineWidth", 0, <<width>>) EXCEPT !.context.LineWidth = width]

SetSourceColor(m, color) ==
    [Called(m, "SetSourceColor", 0, color) EXCEPT !.context.Source = color]

\* A Segment.Stroke that draws without testing visibility.
SegmentStrokeUnclipped(m, seg) ==
    LET a         == m.points[m.segs[seg].PointA]
        b         == m.points[m.segs[seg].PointB]
        lineWidth == m.context.LineWidth
        scale     == Quot(Plus(a.Scaling, b.Scaling), Whole(2))
        m0        == Called(m, "Segment.Stroke", seg, <<>>)
        m1        == SetSourceColor(m0, <<Whole(m.world.R), Whole(m.world.G),
                                          Whole(m.world.B), FogAmount(m.world, a.Z + b.Z)>>)
        m2        == SetLineWidth(m1, Times(lineWidth, scale))
        m3        == Called(m2, "MoveTo", 0, <<a.Px, a.Py>>)
        m4        == Called(m3, "LineTo", 0, <<b.Px, b.Py>>)
        m5        == Called(m4, "Stroke", 0, <<>>)
    IN  SetLineWidth(m5, lineWidth)

\* A Segment.Stroke that leaves the scaled line width behind.
SegmentStrokeScaled(m, seg) ==
    LET a         == m.points[m.segs[seg].PointA]
        b         == m.points[m.segs[seg].PointB]
        lineWidth == m.context.LineWidth
        scale     == Quot(Plus(a.Scaling, b.Scaling), Whole(2))
        m0        == Called(m, "Segment.Stroke", seg, <<>>)
    IN  IF PointVisible(m.world, a) /\ PointVisible(m.world, b)
        THEN LET fog == FogAmount(m.world, a.Z + b.Z)
                 m1  == SetSourceColor(m0, <<Whole(m.world.R), Whole(m.world.G),
                                             Whole(m.world.B), fog>>)
                 m2  == SetLineWidth(m1, Times(lineWidth, scale))
                 m3  == Called(m2, "MoveTo", 0, <<a.Px, a.Py>>)
                 m4  == Called(m3, "LineTo", 0, <<b.Px, b.Py>>)
             IN  Called(m4, "Stroke", 0, <<>>)
        ELSE m0

\* Segment.Stroke of the segment object seg.
SegmentStroke(m, seg) ==
    LET a         == m.points[m.segs[seg].PointA]
        b         == m.points[m.segs[seg].PointB]
        lineWidth == m.context.LineWidth
        scale     == Quot(Plus(a.Scaling, b.Scaling), Whole(2))
        m0        == Called(m, "Segment.Stroke", seg, <<>>)
    IN  IF PointVisible(m.world, a) /\ PointVisible(m.world, b)
        THEN LET fog == FogAmount(m.world, a.Z + b.Z)
                 m1  == SetSourceColor(m0, <<Whole(m.world.R), Whole(m.world.G),
                                             Whole(m.world.B), fog>>)
                 m2  == SetLineWidth(m1, Times(lineWidth, scale))
                 m3  == Called(m2, "MoveTo", 0, <<a.Px, a.Py>>)
                 m4  == Called(m3, "LineTo", 0, <<b.Px, b.Py>>)
                 m5  == Called(m4, "Stroke", 0, <<>>)
             IN  SetLineWidth(m5, lineWidth)
        ELSE SetLineWidth(m0, lineWidth)

RECURSIVE StrokeSegmentsFrom(_, _, _)
StrokeSegmentsFrom(m, list, k) ==
    IF k > Len(list) THEN m
    ELSE StrokeSegmentsFrom(SegmentStroke(m, list[k]), list, k + 1)

\* a < b for quotients with positive denominators.
Less(a, b) == a[1] * b[2] < b[1] * a[2]

\* blmath.Map(v, lo, hi, 1, 0) for lo < hi: 1 - (v - lo)/(hi - lo).
MapOneZero(v, lo, hi) == <<hi - v, hi - lo>>

\* blmath.Clamp(v, 0, 1).
ClampZeroOne(v) == IF Less(v, Zero) THEN Zero ELSE IF Less(Whole(1), v) THEN Whole(1) ELSE v

\* math.Min(a, b).
Min(a, b) == IF Less(b, a) THEN b ELSE a

\* The colour set from the two factors without the clamp to [0, 1].
ApplyFogUnclamped(m, objectY, objectZ) ==
    LET w     == m.world
        fog0  == IF w.Fog THEN MapOneZero(objectZ + w.CZ, w.NearFog, w.FarFog) ELSE Whole(1)
        fog   == IF w.Water
                 THEN Min(fog0, MapOneZero(objectY, w.WaterLevelTop, w.WaterLevelBottom))
                 ELSE fog0
    IN  IF Less(fog, Whole(1))
        THEN SetSourceColor(m, <<Whole(w.R), Whole(w.G), Whole(w.B), fog>>)
        ELSE m

ApplyFogAndWaterLevel(m, objectY, objectZ) ==
    LET w     == m.world
        fog0  == IF w.Fog THEN MapOneZero(objectZ + w.CZ, w.NearFog, w.FarFog) ELSE Whole(1)
        fog1  == IF w.Water
                 THEN Min(fog0, MapOneZero(objectY, w.WaterLevelTop, w.WaterLevelBottom))
                 ELSE fog0
        fog   == ClampZeroOne(fog1)
    IN  IF Less(fog, Whole(1))
        THEN SetSourceColor(m, <<Whole(w.R), Whole(w.G), Whole(w.B), fog>>)
        ELSE m

\* context.Save() pushes the line width and the source colour; Restore() pops
\* them.
ContextSave(m) ==
    [Called(m, "Save", 0, <<>>) EXCEPT !.context.Saved =
        Append(@, [LineWidth |-> m.context.LineWidth, Source |-> m.context.Source])]

ContextRestore(m) ==
    LET n == Len(m.context.Saved)
    IN  [Called(m, "Restore", 0, <<>>) EXCEPT
            !.context = [LineWidth |-> m.context.Saved[n].LineWidth,
                         Source    |-> m.context.Saved[n].Source,
                         Saved     |-> SubSeq(m.context.Saved, 1, n - 1)]]

\* The loop of PointList.RenderPoints; a FillCircle is recorded with the point
\* it marks.
RECURSIVE RenderPointsFrom(_, _, _, _)
RenderPointsFrom(m, list, radius, i) ==
    IF i > Len(list) THEN m
    ELSE LET p == m.points[list[i]]
         IN  RenderPointsFrom(
                IF PointVisible(m.world, p)
                THEN LET m1 == ApplyFogAndWaterLevel(ContextSave(m), p.Y, p.Z)
                         m2 == Called(m1, "FillCircle", list[i],
                                      <<p.Px, p.Py, Times(Whole(radius), p.Scaling)>>)
                     IN  ContextRestore(m2)
                ELSE m,
                list, radius, i + 1)

PointListRenderPoints(m, list, radius) ==
    RenderPointsFrom(PointListProject(m, list), list, radius, 1)

\* A RenderPoints that draws from the cache without projecting.
RenderPointsUnprojected(m, s, radius) ==
    RenderPointsFrom(m, m.shapes[s].Points, radius, 1)

\* Shape.RenderPoints.
RenderPoints(m, s, radius) ==
    PointListRenderPoints(PointListProject(m, m.shapes[s].Points), m.shapes[s].Points, radius)

\* PointList.Get: the memory and the point returned (0 after a panic).
PointListGet(m, list, index) ==
    LET i == IF index < 0 THEN Len(list) - index ELSE index
    IN  IF i \in 0..(Len(list) - 1)
        THEN [m |-> m, point |-> list[i + 1]]
        ELSE [m |-> Panic(m), point |-> 0]

\* A Stroke that strokes the segments before it projects the points.
StrokeUnprojected(m, s, width) ==
    LET m1 == StrokeSegmentsFrom(m, m.shapes[s].Segments, 1)
    IN  PointListProject(m1, m.shapes[s].Points)

\* Shape.Stroke; the width handed to it is not read by the Segment.Stroke of
\* this repository's files.
Stroke(m, s, width) ==
    StrokeSegmentsFrom(PointListProject(m, m.shapes[s].Points), m.shapes[s].Segments, 1)

(***************************************************************************)
(* Save and LoadShape.  Where shapes are saved, a coordinate is a quotient *)
(* <<n, d>> with d > 0 (a float64 that is not a whole number has a power   *)
(* of two as d).  A line of the file is the sequence of its fields as      *)
(* strings.Split(line, " ") returns them, never empty; a field is the text *)
(* of a whole number (kind "int"), the text of a decimal with six digits   *)
(* after the point (kind "dec", val in millionths), or any other text,    *)
(* the empty one included (kind "bad").                                    *)
(***************************************************************************)
IntText(n) == [kind |-> "int", val |-> n]
DecText(micro) == [kind |-> "dec", val |-> micro]
BadText == [kind |-> "bad", val |-> 0]

\* n / d rounded to the nearest whole number, a tie to the even one.
RoundHalfEven(n, d) ==
    LET q == n \div d
        r == n % d
    IN  IF 2 * r < d THEN q
        ELSE IF 2 * r > d THEN q + 1
        ELSE IF q % 2 = 0 THEN q ELSE q + 1

\* The greatest common divisor of a >= 0 and b > 0.
RECURSIVE Gcd(_, _)
Gcd(a, b) == IF a = 0 THEN b ELSE Gcd(b % a, a)

\* A quotient in lowest terms.
Lowest(v) ==
    LET g == Gcd(IF v[1] < 0 THEN -v[1] ELSE v[1], v[2])
    IN  <<v[1] \div g, v[2] \div g>>

\* fmt.Sprintf("%f", v): v with six digits after the point, that is
\* v * 1000000 rounded.
SprintfF(v) ==
    LET g == Gcd(1000000, v[2])
    IN  DecText(RoundHalfEven(v[1] * (1000000 \div g), v[2] \div g))

\* strconv.ParseFloat and strconv.ParseInt of a field: ok, and the value.
ParseFloat(field) ==
    IF field.kind = "int" THEN [ok |-> TRUE, val |-> <<field.val, 1>>]
    ELSE IF field.kind = "dec" THEN [ok |-> TRUE, val |-> Lowest(<<field.val, 1000000>>)]
    ELSE [ok |-> FALSE, val |-> Zero]

ParseInt(field) ==
    IF field.kind = "int" THEN [ok |-> TRUE, val |-> field.val]
    ELSE [ok |-> FALSE, val |-> 0]

\* strconv.ParseInt of a whole line: the line is one field.
ParseIntLine(line) ==
    IF Len(line) = 1 THEN ParseInt(line[1]) ELSE [ok |-> FALSE, val |-> 0]

\* The lines Shape.Save writes for shape s.
SaveLines(h, s) ==
    LET pl == h.shapes[s].Points
        sl == h.shapes[s].Segments
    IN  <<<<IntText(Len(pl))>>>>
        \o [i \in 1..Len(pl) |-> <<SprintfF(h.points[pl[i]].X),
                                    SprintfF(h.points[pl[i]].Y),
                                    SprintfF(h.points[pl[i]].Z)>>]
        \o <<<<IntText(Len(sl))>>>>
        \o [k \in 1..Len(sl) |-> <<IntText(SlicesIndex(pl, h.segs[sl[k]].PointA)),
                                    IntText(SlicesIndex(pl, h.segs[sl[k]].PointB))>>]

\* Shape.Save, where the file can be created and written.
Save(m, s) == [m EXCEPT !.file = [exists |-> TRUE, lines |-> SaveLines(m, s)]]

\* scanner.Scan(); scanner.Text() for line i: past the end of the file the
\* text is empty.
ScanText(lines, i) == IF i <= Len(lines) THEN lines[i] ELSE <<BadText>>

\* parseCoords and parseIndices: "ok" with the values, "err", or "panic" when
\* the line has too few fields (index out of range) and no earlier field
\* failed to parse.
RECURSIVE ParseFields(_, _, _, _, _)
ParseFields(line, n, float, j, vals) ==
    IF j > n THEN [res |-> "ok", vals |-> vals]
    ELSE IF j > Len(line) THEN [res |-> "panic", vals |-> vals]
    ELSE LET r == IF float THEN ParseFloat(line[j]) ELSE ParseInt(line[j])
         IN  IF r.ok THEN ParseFields(line, n, float, j + 1, Append(vals, r.val))
             ELSE [res |-> "err", vals |-> vals]

parseCoords(line) == ParseFields(line, 3, TRUE, 1, <<>>)

parseIndices(line) == ParseFields(line, 2, FALSE, 1, <<>>)

\* The result of LoadShape: the memory, the shape returned (0 is nil) and
\* whether an error is returned.  m0 is the memory at the call: a shape that
\* is not returned is unreachable.
LoadFailed(m0) == [m |-> m0, shape |-> 0, err |-> TRUE]

LoadPanicked(m0) == [m |-> Panic(m0), shape |-> 0, err |-> FALSE]

\* The loop over the segment lines; i is the line to read, left the lines
\* still to read.
RECURSIVE LoadSegments(_, _, _, _, _)
LoadSegments(m0, m, shape, i, left) ==
    IF left <= 0 THEN [m |-> m, shape |-> shape, err |-> FALSE]
    ELSE LET r == parseIndices(ScanText(m.file.lines, i))
             n == Len(m.shapes[shape].Points)
         IN  IF r.res = "panic" THEN LoadPanicked(m0)
             ELSE IF r.res = "err" THEN LoadFailed(m0)
             ELSE IF r.vals[1] < 0 \/ r.vals[1] >= n \/ r.vals[2] < 0 \/ r.vals[2] >= n
                  THEN LoadFailed(m0)
             ELSE LoadSegments(m0, AddSegmentByIndex(m, shape, r.vals[1], r.vals[2]),
                               shape, i + 1, left - 1)

\* The loop over the coordinate lines, and what follows it.
RECURSIVE LoadPoints(_, _, _, _, _)
LoadPoints(m0, m, shape, i, left) ==
    IF left <= 0
    THEN LET numSegments == ParseIntLine(ScanText(m.file.lines, i))
         IN  IF ~numSegments.ok THEN LoadFailed(m0)
             ELSE LoadSegments(m0, m, shape, i + 1, numSegments.val)
    ELSE LET r == parseCoords(ScanText(m.file.lines, i))
         IN  IF r.res = "panic" THEN LoadPanicked(m0)
             ELSE IF r.res = "err" THEN LoadFailed(m0)
             ELSE LoadPoints(m0, AddXYZ(m, shape, r.vals[1], r.vals[2], r.vals[3]),
                             shape, i + 1, left - 1)

LoadShape(m) ==
    IF ~m.file.exists THEN LoadFailed(m)
    ELSE LET m1        == NewShape(m)
             numPoints == ParseIntLine(ScanText(m.file.lines, 1))
         IN  IF ~numPoints.ok THEN LoadFailed(m)
             ELSE LoadPoints(m, m1, Len(m1.shapes), 2, numPoints.val)

\* Files written by something else than Save, by their lines.
FileValid ==
    << <<IntText(2)>>, <<IntText(0), IntText(0), IntText(0)>>,
       <<DecText(1500000), IntText(-2), IntText(3)>>,
       <<IntText(1)>>, <<IntText(0), IntText(1)>> >>

FileIndexTooLarge ==
    << <<IntText(1)>>, <<IntText(0), IntText(0), IntText(0)>>,
       <<IntText(1)>>, <<IntText(0), IntText(1)>> >>

FileIndexNegative ==
    << <<IntText(1)>>, <<IntText(0), IntText(0), IntText(0)>>,
       <<IntText(1)>>, <<IntText(-1), IntText(0)>> >>

FileTwoCoords ==
    << <<IntText(1)>>, <<IntText(1), IntText(2)>>, <<IntText(0)>> >>

FileOneIndex ==
    << <<IntText(1)>>, <<IntText(0), IntText(0), IntText(0)>>,
       <<IntText(1)>>, <<IntText(0)>> >>

FileBadCoord ==
    << <<IntText(1)>>, <<IntText(1), BadText, IntText(3)>>, <<IntText(0)>> >>

FileBadIndex ==
    << <<IntText(1)>>, <<IntText(0), IntText(0), IntText(0)>>,
       <<IntText(1)>>, <<IntText(0), DecText(0)>> >>

FileEmptyLine ==
    << <<IntText(1)>>, <<BadText>>, <<IntText(0)>> >>

FileOneIndexThenTooLarge ==
    << <<IntText(1)>>, <<IntText(0), IntText(0), IntText(0)>>,
       <<IntText(2)>>, <<IntText(0)>>, <<IntText(0), IntText(5)>> >>

FileTruncated ==
    << <<IntText(2)>>, <<IntText(0), IntText(0), IntText(0)>> >>

FileBadCount == << <<BadText>> >>

Files == { FileValid, FileIndexTooLarge, FileIndexNegative, FileTwoCoords,
           FileOneIndex, FileBadCoord, FileBadIndex, FileEmptyLine,
           FileOneIndexThenTooLarge, FileTruncated, FileBadCount }

(***************************************************************************)
(* Transforms of points and point lists whose results leave the integer    *)
(* grid: interpolation, rotation, scaling and sorting.  Coordinates are    *)
(* quotients here, kept in lowest terms.  An angle is given by its cosine  *)
(* and its sine, [cos |-> c, sin |-> s], both quotients.                   *)
(***************************************************************************)
Neg(a) == <<-a[1], a[2]>>
Sum(a, b) == Lowest(Plus(a, b))
Prod(a, b) == Lowest(Times(a, b))

\* log.Fatal: the message is printed and the program exits.
Fatal(m) == [m EXCEPT !.crashed = TRUE]

\* blmath.Lerp(t, a, b): a + (b - a) * t.
Lerp(t, a, b) == Sum(a, Prod(Sum(b, Neg(a)), t))

PointLerp(p, t, p1) ==
    [p EXCEPT !.X = Lerp(t, p.X, p1.X), !.Y = Lerp(t, p.Y, p1.Y), !.Z = Lerp(t, p.Z, p1.Z)]

RECURSIVE PointListLerpFrom(_, _, _, _, _)
PointListLerpFrom(m, list, t, other, i) ==
    IF i > Len(list) THEN m
    ELSE PointListLerpFrom(
            [m EXCEPT !.points[list[i]] = PointLerp(@, t, m.points[other[i]])],
            list, t, other, i + 1)

\* Interpolates without the test of the lengths, as far as the shorter list.
PointListLerpUnchecked(m, list, t, other) ==
    PointListLerpFrom(m, SubSeq(list, 1, IF Len(other) < Len(list) THEN Len(other) ELSE Len(list)),
                      t, other, 1)

PointListLerp(m, list, t, other) ==
    IF Len(list) # Len(other) THEN Fatal(m)
    ELSE PointListLerpFrom(m, list, t, other, 1)

PointRotateX(p, angle) ==
    LET y == Sum(Prod(angle.cos, p.Y), Prod(angle.sin, p.Z))
        z == Sum(Prod(angle.cos, p.Z), Neg(Prod(angle.sin, p.Y)))
    IN  [p EXCEPT !.Y = y, !.Z = z]

PointRotateY(p, angle) ==
    LET x == Sum(Prod(angle.cos, p.X), Prod(angle.sin, p.Z))
        z == Sum(Prod(angle.cos, p.Z), Neg(Prod(angle.sin, p.X)))
    IN  [p EXCEPT !.X = x, !.Z = z]

PointRotateZ(p, angle) ==
    LET y == Sum(Prod(angle.cos, p.Y), Prod(angle.sin, p.X))
        x == Sum(Prod(angle.cos, p.X), Neg(Prod(angle.sin, p.Y)))
    IN  [p EXCEPT !.Y = y, !.X = x]

PointRotate(p, rx, ry, rz) == PointRotateZ(PointRotateY(PointRotateX(p, rx), ry), rz)

\* The loops of PointList.RotateX, RotateY, RotateZ (axis "X", "Y", "Z") over
\* the entries of the list.
RECURSIVE PointListRotateAxisFrom(_, _, _, _, _)
PointListRotateAxisFrom(m, list, axis, angle, i) ==
    IF i > Len(list) THEN m
    ELSE PointListRotateAxisFrom(
            [m EXCEPT !.points[list[i]] =
                IF axis = "X" THEN PointRotateX(@, angle)
                ELSE IF axis = "Y" THEN PointRotateY(@, angle)
                ELSE PointRotateZ(@, angle)],
            list, axis, angle, i + 1)

PointListRotateX(m, list, angle) == PointListRotateAxisFrom(m, list, "X", angle, 1)

PointListRotateY(m, list, angle) == PointListRotateAxisFrom(m, list, "Y", angle, 1)

PointListRotateZ(m, list, angle) == PointListRotateAxisFrom(m, list, "Z", angle, 1)

RECURSIVE PointListRotateFrom(_, _, _, _, _, _)
PointListRotateFrom(m, list, rx, ry, rz, i) ==
    IF i > Len(list) THEN m
    ELSE PointListRotateFrom(
            [m EXCEPT !.points[list[i]] = PointRotate(@, rx, ry, rz)],
            list, rx, ry, rz, i + 1)

PointListRotate(m, list, rx, ry, rz) == PointListRotateFrom(m, list, rx, ry, rz, 1)

RotateX(m, s, angle) == PointListRotateX(m, m.shapes[s].Points, angle)

RotateY(m, s, angle) == PointListRotateY(m, m.shapes[s].Points, angle)

RotateZ(m, s, angle) == PointListRotateZ(m, m.shapes[s].Points, angle)

Rotate(m, s, rx, ry, rz) == PointListRotate(m, m.shapes[s].Points, rx, ry, rz)

PointScaleY(p, scale) == [p EXCEPT !.Y = Prod(@, scale)]

PointScaleZ(p, scale) == [p EXCEPT !.Z = Prod(@, scale)]

\* Point.ScaledZ: the new point is the last of the heap of points.
PointScaledZ(m, p, scale) ==
    [m EXCEPT !.points = Append(@, PointScaleY(PointClone(m.points[p]), scale))]

\* PointList.AddRandomPointOnTorus and PointList.AddRandomPointInTorus of the
\* list of shape s: the method calls itself with its own arguments.  Every
\* call takes a frame of the stack, and the run time stops the program when
\* the stack has reached its limit.
RECURSIVE PointListAddRandomPointOnTorus(_, _, _, _, _)
PointListAddRandomPointOnTorus(m, s, radius1, radius2, frames) ==
    IF frames >= MaxStack THEN Panic(m)
    ELSE PointListAddRandomPointOnTorus(m, s, radius1, radius2, frames + 1)

RECURSIVE PointListAddRandomPointInTorus(_, _, _, _, _)
PointListAddRandomPointInTorus(m, s, radius1, radius2, frames) ==
    IF frames >= MaxStack THEN Panic(m)
    ELSE PointListAddRandomPointInTorus(m, s, radius1, radius2, frames + 1)

\* The function handed to slices.SortFunc by SortX, SortY and SortZ: retval
\* when a's coordinate is greater than b's, -retval otherwise, also when the
\* two are equal.
Coordinate(p, axis) == IF axis = "X" THEN p.X ELSE IF axis = "Y" THEN p.Y ELSE p.Z

SortCmp(h, a, b, axis, ascending) ==
    LET retval == IF ascending THEN 1 ELSE -1
    IN  IF Less(Coordinate(h.points[b], axis), Coordinate(h.points[a], axis))
        THEN retval ELSE -retval

\* slices.SortFunc on a list of fewer than 12 entries is an insertion sort:
\* entry i moves towards the front while the function is negative for it and
\* the entry before it.
RECURSIVE InsertionInner(_, _, _, _, _)
InsertionInner(h, list, axis, ascending, j) ==
    IF j > 1 /\ SortCmp(h, list[j], list[j - 1], axis, ascending) < 0
    THEN InsertionInner(h, [list EXCEPT ![j] = list[j - 1], ![j - 1] = list[j]],
                        axis, ascending, j - 1)
    ELSE list

RECURSIVE InsertionSortFrom(_, _, _, _, _)
InsertionSortFrom(h, list, axis, ascending, i) ==
    IF i > Len(list) THEN list
    ELSE InsertionSortFrom(h, InsertionInner(h, list, axis, ascending, i),
                           axis, ascending, i + 1)

\* SortX, SortY and SortZ of the point list of shape s.
PointListSort(m, s, axis, ascending) ==
    [m EXCEPT !.shapes[s].Points = InsertionSortFrom(m, @, axis, ascending, 2)]

(***************************************************************************)
(* The state machine.                                                      *)
(***************************************************************************)
NoFunc == [name |-> "", neg |-> FALSE]

\* No call of ThinPoints is under way.
Idle ==
    [pc |-> "idle", s |-> 0, take |-> 0, skip |-> 0, i |-> 0, max |-> 0,
     points |-> <<>>, n |-> 0]

Heaps == [points |-> points, segs |-> segs, shapes |-> shapes, context |-> context]

\* The state after an operation that took the heaps to m.
Commit(m, op, s, t, a, f) ==
    /\ points' = m.points
    /\ segs' = m.segs
    /\ shapes' = m.shapes
    /\ crashed' = m.crashed
    /\ world' = m.world
    /\ context' = m.context
    /\ file' = m.file
    /\ calls' = m.calls
    /\ last' = [op |-> op, s |-> s, t |-> t, a |-> a, f |-> f, pre |-> Heaps]
    /\ origin' = IF m.crashed \/ Len(m.shapes) = Len(shapes) THEN origin
                 ELSE Append(origin, IF op = "Clone" THEN s ELSE 0)
    /\ nOps' = nOps + 1
    /\ running' = Idle

Ready == ~crashed /\ nOps < MaxOps /\ running = Idle

ShapeIds == 1..Len(shapes)

\* The points handed to AddPoint: the oldest and the newest point object.
OldPoints == { p \in 1..Len(points) : p = 1 \/ p = Len(points) }

\* The points handed to AddSegmentByPoints: the last and the first point of
\* the shape, as ShapeFrom2dPath hands them.
PointPairs(s) ==
    LET pl == shapes[s].Points
    IN  IF pl = <<>> THEN {} ELSE { <<pl[Len(pl)], pl[1]>> }

\* InitWorld(context, 0, 0, 0) on a context that draws in opaque black, before
\* any shape is built and before the shape file is written.
Empty(lineWidth) ==
    InitWorld(
        [points |-> <<>>, segs |-> <<>>, shapes |-> <<>>, crashed |-> FALSE,
         world |-> WorldDefault,
         context |-> [LineWidth |-> Whole(lineWidth),
                      Source |-> <<Zero, Zero, Zero, Whole(1)>>,
                      Saved |-> <<>>],
         file |-> [exists |-> FALSE, lines |-> <<>>],
         calls |-> <<>>],
        0, 0, 0)

\* A program that has built one shape from a 2d path.
Init ==
    \E path \in Paths, closed \in BOOLEAN, lineWidth \in LineWidths :
        LET m == ShapeFrom2dPath(Empty(lineWidth), path, closed)
        IN  /\ points = m.points
            /\ segs = m.segs
            /\ shapes = m.shapes
            /\ crashed = m.crashed
            /\ world = m.world
            /\ context = m.context
            /\ file = m.file
            /\ calls = m.calls
            /\ last = [op |-> "Init", s |-> 0, t |-> 0, a |-> <<>>, f |-> NoFunc,
                       pre |-> [points |-> <<>>, segs |-> <<>>, shapes |-> <<>>,
                                context |-> m.context]]
            /\ origin = [c \in 1..Len(m.shapes) |-> 0]
            /\ nOps = 0
            /\ running = Idle

CallAddXYZ(s, c) ==
    /\ Ready
    /\ Commit(AddXYZ(Mem, s, c[1], c[2], c[3]), "AddXYZ", s, 0, c, NoFunc)

CallAddPoint(s, p) ==
    /\ Ready
    /\ Commit(AddPoint(Mem, s, p), "AddPoint", s, 0, <<p>>, NoFunc)

CallAddSegmentByIndex(s, a, b) ==
    /\ Ready
    /\ Commit(AddSegmentByIndex(Mem, s, a, b), "AddSegmentByIndex", s, 0, <<a, b>>, NoFunc)

\* Called with two points of the shape.
CallAddSegmentByPoints(s, a, b) ==
    /\ Ready
    /\ Commit(AddSegmentByPoints(Mem, s, a, b), "AddSegmentByPoints", s, 0, <<a, b>>, NoFunc)

CallAddShape(s, shape) ==
    /\ Ready
    /\ Commit(AddShape(Mem, s, shape), "AddShape", s, shape, <<>>, NoFunc)

CallClone(s) ==
    /\ Ready
    /\ Commit(Clone(Mem, s), "Clone", s, Len(shapes) + 1, <<>>, NoFunc)

CallCull(s, f) ==
    /\ Ready
    /\ Commit(Cull(Mem, s, f), "Cull", s, 0, <<>>, f)

CallCullBox(s, b) ==
    /\ Ready
    /\ Commit(CullBox(Mem, s, b[1], b[2], b[3], b[4], b[5], b[6]), "CullBox", s, 0, b, NoFunc)

CallThinPoints(s, ts) ==
    /\ Ready
    /\ ts[1] > 0 \/ ts[2] > 0
    /\ Commit(ThinPoints(Mem, s, ts[1], ts[2]), "ThinPoints", s, 0, ts, NoFunc)

CallSplit(s, f) ==
    /\ Ready
    /\ Commit(Split(Mem, s, f), "Split", s, Len(shapes) + 1, <<>>, f)

CallSubdivide(s, maxDist) ==
    /\ Ready
    /\ maxDist > 0
    /\ SubdivideOnGrid(Mem, s, maxDist)
    /\ Commit(Subdivide(Mem, s, maxDist), "Subdivide", s, 0, <<maxDist>>, NoFunc)

CallTranslate(s, v) ==
    /\ Ready
    /\ Commit(Translate(Mem, s, v[1], v[2], v[3]), "Translate", s, 0, v, NoFunc)

Next ==
    \/ \E s \in ShapeIds, c \in Coords : CallAddXYZ(s, c)
    \/ \E s \in ShapeIds, p \in OldPoints : CallAddPoint(s, p)
    \/ \E s \in ShapeIds, ab \in IndexPairs : CallAddSegmentByIndex(s, ab[1], ab[2])
    \/ \E s \in ShapeIds : \E ab \in PointPairs(s) : CallAddSegmentByPoints(s, ab[1], ab[2])
    \/ \E s, shape \in ShapeIds : CallAddShape(s, shape)
    \/ \E s \in ShapeIds : CallClone(s)
    \/ \E s \in ShapeIds, f \in CullFuncs : CallCull(s, f)
    \/ \E s \in ShapeIds, b \in Boxes : CallCullBox(s, b)
    \/ \E s \in ShapeIds, ts \in Thins : CallThinPoints(s, ts)
    \/ \E s \in ShapeIds, f \in CullFuncs : CallSplit(s, f)
    \/ \E s \in ShapeIds, maxDist \in MaxDists : CallSubdivide(s, maxDist)
    \/ \E s \in ShapeIds, v \in Translations : CallTranslate(s, v)

Spec == Init /\ [][Next]_vars

CallSetCenter(c) ==
    /\ Ready
    /\ Commit(SetCenter(Mem, c[1], c[2], c[3]), "SetCenter", 0, 0, c, NoFunc)

\* `calls` records the calls of this Stroke alone.
CallStroke(s, width) ==
    /\ Ready
    /\ Commit(Stroke([Mem EXCEPT !.calls = <<>>], s, width), "Stroke", s, 0, <<width>>, NoFunc)

\* Building, transforming, culling and thinning a shape, moving the camera,
\* and stroking.
NextDraw ==
    \/ \E s \in ShapeIds, c \in Coords : CallAddXYZ(s, c)
    \/ \E s \in ShapeIds, p \in OldPoints : CallAddPoint(s, p)
    \/ \E s \in ShapeIds, ab \in IndexPairs : CallAddSegmentByIndex(s, ab[1], ab[2])
    \/ \E s, shape \in ShapeIds : CallAddShape(s, shape)
    \/ \E s \in ShapeIds, b \in Boxes : CallCullBox(s, b)
    \/ \E s \in ShapeIds, ts \in Thins : CallThinPoints(s, ts)
    \/ \E s \in ShapeIds, v \in Translations : CallTranslate(s, v)
    \/ \E c \in Centers : CallSetCenter(c)
    \/ \E s \in ShapeIds, width \in Widths : CallStroke(s, width)

SpecDraw == Init /\ [][NextDraw]_vars

(***************************************************************************)
(* ThinPoints statement by statement: the shape operations and one call of *)
(* ThinPoints at a time, which takes one step for each test of a loop.     *)
(***************************************************************************)
Step(r) ==
    /\ running' = r
    /\ UNCHANGED <<points, segs, shapes, world, context, file, calls, crashed, last,
                   origin, nOps>>

\* points := NewPointList(); i := 0; max := len(s.Points)
ThinPointsEnter(s, ts) ==
    /\ Ready
    /\ Step([pc |-> "for", s |-> s, take |-> ts[1], skip |-> ts[2], i |-> 0,
             max |-> Len(shapes[s].Points), points |-> <<>>, n |-> 0])

\* for i < max
ThinPointsFor ==
    /\ running.pc = "for"
    /\ IF running.i < running.max
       THEN Step([running EXCEPT !.pc = "take", !.n = RangeCount(running.take)])
       ELSE Step([running EXCEPT !.pc = "return"])

\* for range take
ThinPointsTake ==
    /\ running.pc = "take"
    /\ IF running.n = 0
       THEN Step([running EXCEPT !.pc = "skip", !.n = RangeCount(running.skip)])
       ELSE IF running.i >= running.max
       THEN Step([running EXCEPT !.pc = "return"])
       ELSE Step([running EXCEPT
                    !.points = Append(@, shapes[running.s].Points[running.i + 1]),
                    !.i = @ + 1, !.n = @ - 1])

\* for range skip
ThinPointsSkip ==
    /\ running.pc = "skip"
    /\ IF running.n = 0
       THEN Step([running EXCEPT !.pc = "for"])
       ELSE IF running.i >= running.max
       THEN Step([running EXCEPT !.pc = "return"])
       ELSE Step([running EXCEPT !.i = @ + 1, !.n = @ - 1])

\* s.Points = points, and the call returns.
ThinPointsReturn ==
    /\ running.pc = "return"
    /\ Commit([Mem EXCEPT !.shapes[running.s].Points = running.points],
              "ThinPoints", running.s, 0, <<running.take, running.skip>>, NoFunc)

\* The statements of the call under way.
ThinPointsStep ==
    \/ ThinPointsFor
    \/ ThinPointsTake
    \/ ThinPointsSkip
    \/ ThinPointsReturn

NextThin ==
    \/ \E s \in ShapeIds, c \in Coords : CallAddXYZ(s, c)
    \/ \E s \in ShapeIds, f \in CullFuncs : CallCull(s, f)
    \/ \E s \in ShapeIds, ts \in ThinSteps : ThinPointsEnter(s, ts)
    \/ ThinPointsFor
    \/ ThinPointsTake
    \/ ThinPointsSkip
    \/ ThinPointsReturn

\* The program is one goroutine: a call that has a next statement runs it.
SpecThin == Init /\ [][NextThin]_vars /\ WF_vars(ThinPointsStep)

\* The state m, before any operation.
StartsAs(m) ==
    /\ points = m.points
    /\ segs = m.segs
    /\ shapes = m.shapes
    /\ crashed = m.crashed
    /\ world = m.world
    /\ context = m.context
    /\ file = m.file
    /\ calls = m.calls
    /\ last = [op |-> "Init", s |-> 0, t |-> 0, a |-> <<>>, f |-> NoFunc,
               pre |-> [points |-> <<>>, segs |-> <<>>, shapes |-> <<>>,
                        context |-> m.context]]
    /\ origin = [c \in 1..Len(m.shapes) |-> 0]
    /\ nOps = 0
    /\ running = Idle

\* A program that has called InitWorld and SetClipping and has built one shape
\* from a 2d path.
InitRender ==
    \E path \in Paths, closed \in BOOLEAN, lineWidth \in LineWidths,
       c \in RenderCenters, clip \in StartClippings :
        StartsAs(ShapeFrom2dPath(
                    SetClipping(InitWorld(Empty(lineWidth), c[1], c[2], c[3]),
                                clip[1], clip[2]),
                    path, closed))

CallSetClipping(clip) ==
    /\ Ready
    /\ Commit(SetClipping(Mem, clip[1], clip[2]), "SetClipping", 0, 0, clip, NoFunc)

CallSetFog(fog) ==
    /\ Ready
    /\ Commit(SetFog(Mem, fog[1], fog[2], fog[3]), "SetFog", 0, 0, fog, NoFunc)

CallSetWaterLevel(wl) ==
    /\ Ready
    /\ Commit(SetWaterLevel(Mem, wl[1], wl[2], wl[3]), "SetWaterLevel", 0, 0, wl, NoFunc)

\* Segment.Stroke of segment seg, called on its own; t says whether both
\* endpoints were visible.
CallSegmentStroke(seg) ==
    /\ Ready
    /\ Commit(SegmentStroke([Mem EXCEPT !.calls = <<>>], seg), "Segment.Stroke", seg,
              IF /\ PointVisible(world, points[segs[seg].PointA])
                 /\ PointVisible(world, points[segs[seg].PointB]) THEN 1 ELSE 0,
              <<>>, NoFunc)

CallRenderPoints(s, radius) ==
    /\ Ready
    /\ Commit(RenderPoints([Mem EXCEPT !.calls = <<>>], s, radius), "RenderPoints", s, 0,
              <<radius>>, NoFunc)

\* Building a shape, moving the camera, setting fog and water level, and
\* drawing segments, shapes and point markers.
NextRender ==
    \/ \E s \in ShapeIds, c \in RenderCoords : CallAddXYZ(s, c)
    \/ \E s \in ShapeIds, p \in OldPoints : CallAddPoint(s, p)
    \/ \E s \in ShapeIds, ab \in IndexPairs : CallAddSegmentByIndex(s, ab[1], ab[2])
    \/ \E c \in RenderCenters : CallSetCenter(c)
    \/ \E fog \in Fogs : CallSetFog(fog)
    \/ \E wl \in WaterLevels : CallSetWaterLevel(wl)
    \/ \E seg \in 1..Len(segs) : CallSegmentStroke(seg)
    \/ \E s \in ShapeIds, width \in Widths : CallStroke(s, width)
    \/ \E s \in ShapeIds, radius \in Radii : CallRenderPoints(s, radius)

SpecRender == InitRender /\ [][NextRender]_vars

\* Point.Project of point p, called on its own.
CallPointProject(p) ==
    /\ Ready
    /\ Commit([Mem EXCEPT !.points[p] = PointProject(world, @)], "Point.Project", p, 0,
              <<>>, NoFunc)

\* Point.Visible of point p; the result is the last of calls.
CallVisible(p) ==
    /\ Ready
    /\ Commit(Called(Mem, "Point.Visible", p, <<PointVisible(world, points[p])>>),
              "Point.Visible", p, 0, <<>>, NoFunc)

\* s.Points.Get(index); t is the point returned.
CallGet(s, index) ==
    /\ Ready
    /\ LET r == PointListGet(Mem, shapes[s].Points, index)
       IN  Commit(r.m, "Get", s, r.point, <<index>>, NoFunc)

\* Points, read through Project, Visible and Get while the shape, the camera
\* and the clipping change.
NextPoint ==
    \/ \E s \in ShapeIds, c \in RenderCoords : CallAddXYZ(s, c)
    \/ \E s \in ShapeIds, v \in Translations : CallTranslate(s, v)
    \/ \E c \in RenderCenters : CallSetCenter(c)
    \/ \E clip \in Clippings : CallSetClipping(clip)
    \/ \E p \in 1..Len(points) : CallPointProject(p)
    \/ \E p \in 1..Len(points) : CallVisible(p)
    \/ \E s \in ShapeIds, index \in Indexes : CallGet(s, index)

SpecPoint == InitRender /\ [][NextPoint]_vars

(***************************************************************************)
(* Shading: fog and water level are set and points and segments are drawn. *)
(***************************************************************************)
NextShade ==
    \/ \E s \in ShapeIds, c \in RenderCoords : CallAddXYZ(s, c)
    \/ \E c \in RenderCenters : CallSetCenter(c)
    \/ \E fog \in ShadeFogs : CallSetFog(fog)
    \/ \E wl \in ShadeWaterLevels : CallSetWaterLevel(wl)
    \/ \E seg \in 1..Len(segs) : CallSegmentStroke(seg)
    \/ \E s \in ShapeIds, radius \in Radii : CallRenderPoints(s, radius)

SpecShade == InitRender /\ [][NextShade]_vars

(***************************************************************************)
(* Point lists: the points of shape 1, two points at the start, are        *)
(* interpolated towards the points of shape 2, rotated, sorted and added   *)
(* to; shape 2 has one or two points.                                      *)
(***************************************************************************)
InitList ==
    \E c1 \in ListCoords, c2 \in ListCoords, n \in OtherLengths, lineWidth \in LineWidths :
        LET m1 == NewShape(Empty(lineWidth))
            m2 == AddXYZ(m1, 1, c1[1], c1[2], c1[3])
            m3 == AddXYZ(m2, 1, c2[1], c2[2], c2[3])
            m4 == NewShape(m3)
            m5 == AddXYZ(m4, 2, c2[1], c2[2], c2[3])
        IN  StartsAs(IF n = 1 THEN m5 ELSE AddXYZ(m5, 2, c1[1], c1[2], c1[3]))

CallLerp(s, t, o) ==
    /\ Ready
    /\ Commit(PointListLerp(Mem, shapes[s].Points, t, shapes[o].Points),
              "Lerp", s, o, <<t>>, NoFunc)

CallRotateX(s, angle) ==
    /\ Ready
    /\ Commit(RotateX(Mem, s, angle), "RotateX", s, 0, <<angle>>, NoFunc)

CallRotateY(s, angle) ==
    /\ Ready
    /\ Commit(RotateY(Mem, s, angle), "RotateY", s, 0, <<angle>>, NoFunc)

CallRotateZ(s, angle) ==
    /\ Ready
    /\ Commit(RotateZ(Mem, s, angle), "RotateZ", s, 0, <<angle>>, NoFunc)

CallRotate(s, r) ==
    /\ Ready
    /\ Commit(Rotate(Mem, s, r[1], r[2], r[3]), "Rotate", s, 0, r, NoFunc)

\* t is the point returned.
CallScaledZ(p, scale) ==
    /\ Ready
    /\ Commit(PointScaledZ(Mem, p, scale), "ScaledZ", p, Len(points) + 1, <<scale>>, NoFunc)

CallAddRandomPointOnTorus(s, r) ==
    /\ Ready
    /\ Commit(PointListAddRandomPointOnTorus(Mem, s, r[1], r[2], 1),
              "AddRandomPointOnTorus", s, 0, r, NoFunc)

CallAddRandomPointInTorus(s, r) ==
    /\ Ready
    /\ Commit(PointListAddRandomPointInTorus(Mem, s, r[1], r[2], 1),
              "AddRandomPointInTorus", s, 0, r, NoFunc)

CallSort(s, axis, ascending) ==
    /\ Ready
    /\ Commit(PointListSort(Mem, s, axis, ascending), "Sort", s, 0, <<axis, ascending>>, NoFunc)

NextList ==
    \/ \E p \in 1..Len(points) : CallAddPoint(1, p)
    \/ \E s \in ShapeIds, o \in ShapeIds, t \in LerpTs : CallLerp(s, t, o)
    \/ \E angle \in Angles : CallRotateX(1, angle)
    \/ \E angle \in Angles : CallRotateY(1, angle)
    \/ \E angle \in Angles : CallRotateZ(1, angle)
    \/ \E r \in Rotations : CallRotate(1, r)
    \/ \E p \in 1..Len(points), scale \in Scales : CallScaledZ(p, scale)
    \/ \E r \in Tori : CallAddRandomPointOnTorus(1, r)
    \/ \E r \in Tori : CallAddRandomPointInTorus(1, r)
    \/ \E axis \in Axes, ascending \in BOOLEAN : CallSort(1, axis, ascending)

SpecList == InitList /\ [][NextList]_vars

(***************************************************************************)
(* Saving and loading: a shape of two points, with or without a segment    *)
(* between them, is changed, saved and loaded; the file can also be        *)
(* written by something else.                                              *)
(***************************************************************************)
InitFile ==
    \E c1 \in FileCoords, c2 \in FileCoords, joined \in BOOLEAN, lineWidth \in LineWidths :
        LET m1 == NewShape(Empty(lineWidth))
            m2 == AddXYZ(m1, 1, c1[1], c1[2], c1[3])
            m3 == AddXYZ(m2, 1, c2[1], c2[2], c2[3])
        IN  StartsAs(IF joined THEN AddSegmentByIndex(m3, 1, 0, 1) ELSE m3)

CallSave(s) ==
    /\ Ready
    /\ Commit(Save(Mem, s), "Save", s, 0, <<>>, NoFunc)

CallWriteFile(lines) ==
    /\ Ready
    /\ Commit([Mem EXCEPT !.file = [exists |-> TRUE, lines |-> lines]],
              "WriteFile", 0, 0, <<>>, NoFunc)

CallLoadShape ==
    /\ Ready
    /\ LET r == LoadShape(Mem)
       IN  Commit(r.m, "LoadShape", 0, r.shape, <<r.err>>, NoFunc)

NextFile ==
    \/ \E s \in ShapeIds, c \in FileCoords : CallAddXYZ(s, c)
    \/ \E s \in ShapeIds, p \in 1..Len(points) : CallAddPoint(s, p)
    \/ \E s \in ShapeIds, ab \in FilePairs : CallAddSegmentByIndex(s, ab[1], ab[2])
    \/ \E s \in ShapeIds, ts \in FileThins : CallThinPoints(s, ts)
    \/ \E s \in ShapeIds : CallSave(s)
    \/ \E lines \in Files : CallWriteFile(lines)
    \/ CallLoadShape

SpecFile == InitFile /\ [][NextFile]_vars

(***************************************************************************)
(* Properties.                                                             *)
(***************************************************************************)
\* h is a record of heaps (the current ones, or those before the last call).
Now == Heaps
Before == last.pre

\* Both endpoints of every segment of shape s are points of shape s.
OwnsEndpoints(h, s) ==
    \A k \in 1..Len(h.shapes[s].Segments) :
        /\ h.segs[h.shapes[s].Segments[k]].PointA \in Range(h.shapes[s].Points)
        /\ h.segs[h.shapes[s].Segments[k]].PointB \in Range(h.shapes[s].Points)

\* new holds exactly the entries of old at the indices K, in their order in old.
Selects(new, old, K) ==
    /\ Len(new) = Cardinality(K)
    /\ \A i \in K : new[Cardinality({ j \in K : j <= i })] = old[i]

SameXYZ(p, q) == p.X = q.X /\ p.Y = q.Y /\ p.Z = q.Z

\* The indices of the points of shape s in h that satisfy f, and of its
\* segments whose two endpoints both satisfy f.
PointsWhere(h, s, f) ==
    { i \in 1..Len(h.shapes[s].Points) : CullFunc(f, h.points[h.shapes[s].Points[i]]) }

SegmentsWhere(h, s, f) ==
    { k \in 1..Len(h.shapes[s].Segments) :
        /\ CullFunc(f, h.points[h.segs[h.shapes[s].Segments[k]].PointA])
        /\ CullFunc(f, h.points[h.segs[h.shapes[s].Segments[k]].PointB]) }

\* No existing point or segment object was written to.
ObjectsUntouched ==
    /\ \A p \in 1..Len(Before.points) : points[p] = Before.points[p]
    /\ \A k \in 1..Len(Before.segs) : segs[k] = Before.segs[k]

\* C1: in every reachable state both endpoints of every segment of a shape
\* are, by identity, elements of that shape's Points.
C1_SegmentsOwnEndpoints == \A s \in ShapeIds : OwnsEndpoints(Now, s)

\* The state C1 fails in: CullBox or ThinPoints has removed an endpoint of a
\* segment that the shape still lists.
C1_Dangling ==
    /\ last.op \in {"CullBox", "ThinPoints"}
    /\ OwnsEndpoints(Before, last.s)
    /\ ~OwnsEndpoints(Now, last.s)

\* Every operation but CullBox and ThinPoints keeps the endpoints owned.
OthersKeepEndpoints ==
    (/\ last.op \notin {"Init", "CullBox", "ThinPoints"}
     /\ ~crashed
     /\ \A s \in 1..Len(Before.shapes) : OwnsEndpoints(Before, s))
        => \A s \in ShapeIds : OwnsEndpoints(Now, s)

\* C5: after Cull(f) on a shape whose segments all reference its own points,
\* Points holds exactly the previous points that satisfy f (the same objects,
\* in their order), Segments exactly the previous segments whose endpoints
\* both satisfy f (in their order), and no segment touches a removed point.
C5_CullCascades ==
    (last.op = "Cull" /\ OwnsEndpoints(Before, last.s)) =>
        /\ Selects(shapes[last.s].Points, Before.shapes[last.s].Points,
                   PointsWhere(Before, last.s, last.f))
        /\ Selects(shapes[last.s].Segments, Before.shapes[last.s].Segments,
                   SegmentsWhere(Before, last.s, last.f))
        /\ OwnsEndpoints(Now, last.s)
        /\ ObjectsUntouched

C5_Witness ==
    /\ last.op = "Cull"
    /\ OwnsEndpoints(Before, last.s)
    /\ Len(shapes[last.s].Points) \in 1..(Len(Before.shapes[last.s].Points) - 1)
    /\ Len(shapes[last.s].Segments) \in 1..(Len(Before.shapes[last.s].Segments) - 1)

\* The indices of the points of shape s in h that lie in the box b, bounds
\* included, and of its segments whose two endpoints both lie in it.
PointsInBox(h, s, b) ==
    { i \in 1..Len(h.shapes[s].Points) :
        LET p == h.points[h.shapes[s].Points[i]]
        IN  /\ b[1] <= p.X /\ p.X <= b[4]
            /\ b[2] <= p.Y /\ p.Y <= b[5]
            /\ b[3] <= p.Z /\ p.Z <= b[6] }

SegmentsInBox(h, s, b) ==
    { k \in 1..Len(h.shapes[s].Segments) :
        /\ h.segs[h.shapes[s].Segments[k]].PointA
              \in { h.shapes[s].Points[i] : i \in PointsInBox(h, s, b) }
        /\ h.segs[h.shapes[s].Segments[k]].PointB
              \in { h.shapes[s].Points[i] : i \in PointsInBox(h, s, b) } }

\* C6: after CullBox, Points holds exactly the previous points inside the box
\* (bounds inclusive, original order) and every segment that had an endpoint
\* outside the box has been removed from Segments.
C6_CullBoxCascades ==
    (last.op = "CullBox" /\ OwnsEndpoints(Before, last.s)) =>
        /\ Selects(shapes[last.s].Points, Before.shapes[last.s].Points,
                   PointsInBox(Before, last.s, last.a))
        /\ Selects(shapes[last.s].Segments, Before.shapes[last.s].Segments,
                   SegmentsInBox(Before, last.s, last.a))

\* What CullBox does: the points are culled and Segments is left as it was.
CullBoxKeepsSegments ==
    last.op = "CullBox" =>
        /\ Selects(shapes[last.s].Points, Before.shapes[last.s].Points,
                   PointsInBox(Before, last.s, last.a))
        /\ shapes[last.s].Segments = Before.shapes[last.s].Segments

\* C8: after Subdivide(maxDist) with maxDist > 0 no segment of the shape is
\* longer than maxDist.
C8_SubdivideBounds ==
    last.op = "Subdivide" =>
        \A k \in 1..Len(shapes[last.s].Segments) :
            LET seg == segs[shapes[last.s].Segments[k]]
            IN  Length2(points[seg.PointA], points[seg.PointB]) <= last.a[1] * last.a[1]

\* C9: after ThinPoints(take, skip) with take + skip > 0, Points holds exactly
\* the previous points at the indices i with i mod (take + skip) < take, as
\* the same objects and in the same order.
C9_ThinPattern ==
    (last.op = "ThinPoints" /\ last.a[1] + last.a[2] > 0) =>
        /\ Selects(shapes[last.s].Points, Before.shapes[last.s].Points,
                   { i \in 1..Len(Before.shapes[last.s].Points) :
                        (i - 1) % (last.a[1] + last.a[2]) < last.a[1] })
        /\ ObjectsUntouched

C9_Witness ==
    /\ last.op = "ThinPoints"
    /\ last.a = <<2, 1>>
    /\ Len(Before.shapes[last.s].Points) = 5
    /\ Len(shapes[last.s].Points) = 4

\* The index of point object p in a list that holds it once.
IndexIn(list, p) == CHOOSE i \in 1..Len(list) : list[i] = p

\* Shape o and everything it lists are as they were before the last call.
Untouched(o) ==
    /\ shapes[o] = Before.shapes[o]
    /\ \A p \in Range(Before.shapes[o].Points) : points[p] = Before.points[p]
    /\ \A k \in Range(Before.shapes[o].Segments) : segs[k] = Before.segs[k]

SharesNoPoint(h, c, o) == Range(h.shapes[c].Points) \cap Range(h.shapes[o].Points) = {}

\* C2: Clone is deep.  When Clone returns, no point object of the clone is a
\* point object of the original and every segment of the clone has both
\* endpoints in the clone's own Points; and a later call on a clone that holds
\* no point of its original leaves the original's lists, points and segments
\* as they were.
C2_CloneIsDeep ==
    /\ (last.op = "Clone" /\ ~crashed) =>
            /\ SharesNoPoint(Now, last.t, last.s)
            /\ OwnsEndpoints(Now, last.t)
            /\ Untouched(last.s)
    /\ \A c \in 1..Len(Before.shapes) :
            (origin[c] # 0 /\ last.s = c /\ SharesNoPoint(Before, c, origin[c]))
                => Untouched(origin[c])

\* A clone with points and a segment has been translated.
C2_Witness ==
    /\ last.op = "Translate"
    /\ origin[last.s] # 0
    /\ SharesNoPoint(Before, last.s, origin[last.s])
    /\ shapes[last.s].Segments # <<>>
    /\ \A p \in Range(shapes[last.s].Points) : ~SameXYZ(points[p], Before.points[p])

\* C3: Clone preserves structure by position: as many points, with the same
\* coordinates in the same order; as many segments; and the k-th segment of
\* the clone joins the clone's points at indices at which the original's
\* Points holds the endpoints of the original's k-th segment.
C3_ClonePreservesStructure ==
    (last.op = "Clone" /\ ~crashed) =>
        LET c == shapes[last.t]
            o == shapes[last.s]
        IN  /\ Len(c.Points) = Len(o.Points)
            /\ \A i \in 1..Len(o.Points) : SameXYZ(points[c.Points[i]], points[o.Points[i]])
            /\ Len(c.Segments) = Len(o.Segments)
            /\ \A k \in 1..Len(o.Segments) :
                    /\ segs[c.Segments[k]].PointA \in Range(c.Points)
                    /\ segs[c.Segments[k]].PointB \in Range(c.Points)
                    /\ o.Points[IndexIn(c.Points, segs[c.Segments[k]].PointA)]
                            = segs[o.Segments[k]].PointA
                    /\ o.Points[IndexIn(c.Points, segs[c.Segments[k]].PointB)]
                            = segs[o.Segments[k]].PointB

\* A shape with a segment between two different points has been cloned.
C3_Witness ==
    /\ last.op = "Clone"
    /\ ~crashed
    /\ \E k \in 1..Len(shapes[last.s].Segments) :
            segs[shapes[last.s].Segments[k]].PointA # segs[shapes[last.s].Segments[k]].PointB
    /\ Len(shapes[last.t].Segments) >= 2

\* How often point object p occurs in list.
Occurrences(list, p) == Cardinality({ i \in 1..Len(list) : list[i] = p })

\* C4: after A.AddShape(B) for two shapes A and B, A's Points are A's previous
\* points followed by B's points and A's Segments are A's previous segments
\* followed by B's segments, as the same objects; B's lists are unchanged; and
\* a Translate of a shape moves every point it lists, as read through every
\* shape that lists that point.
C4_AddShapeAliases ==
    /\ (last.op = "AddShape" /\ last.s # last.t) =>
            /\ shapes[last.s].Points
                  = Before.shapes[last.s].Points \o Before.shapes[last.t].Points
            /\ shapes[last.s].Segments
                  = Before.shapes[last.s].Segments \o Before.shapes[last.t].Segments
            /\ shapes[last.t] = Before.shapes[last.t]
            /\ points = Before.points
            /\ segs = Before.segs
    /\ last.op = "Translate" =>
            \A t \in ShapeIds : \A i \in 1..Len(shapes[t].Points) :
                LET p == shapes[t].Points[i]
                    n == Occurrences(shapes[last.s].Points, p)
                IN  /\ points[p].X = Before.points[p].X + n * last.a[1]
                    /\ points[p].Y = Before.points[p].Y + n * last.a[2]
                    /\ points[p].Z = Before.points[p].Z + n * last.a[3]

\* B was added to A, and then one of the two was translated: the points of B
\* are the tail of A's Points and have moved.
C4_Witness ==
    /\ last.op = "Translate"
    /\ \E a, b \in ShapeIds :
        /\ a # b
        /\ last.s \in {a, b}
        /\ shapes[b].Points # <<>>
        /\ shapes[b].Segments # <<>>
        /\ Len(shapes[a].Points) > Len(shapes[b].Points)
        /\ SubSeq(shapes[a].Points, Len(shapes[a].Points) - Len(shapes[b].Points) + 1,
                  Len(shapes[a].Points)) = shapes[b].Points
        /\ \A p \in Range(shapes[b].Points) : ~SameXYZ(points[p], Before.points[p])

\* C7: when Split(f) returns, the returned shape holds one point for every
\* previous point of the receiver that satisfies f (same coordinates, original
\* order) and one segment for every previous segment whose endpoints both
\* satisfy f; the receiver keeps exactly its points that fail f and its
\* segments whose endpoints both fail f; the two point counts add up to the
\* receiver's previous point count.
C7_SplitPartitions ==
    (last.op = "Split" /\ ~crashed) =>
        LET r     == shapes[last.t]
            old   == Before.shapes[last.s]
            sat   == PointsWhere(Before, last.s, last.f)
            satS  == SegmentsWhere(Before, last.s, last.f)
            rank(K, i) == Cardinality({ j \in K : j <= i })
        IN  /\ Len(r.Points) = Cardinality(sat)
            /\ \A i \in sat :
                    SameXYZ(points[r.Points[rank(sat, i)]], Before.points[old.Points[i]])
            /\ Len(r.Segments) = Cardinality(satS)
            /\ \A k \in satS :
                    LET seg == segs[r.Segments[rank(satS, k)]]
                    IN  /\ seg.PointA \in Range(r.Points)
                        /\ seg.PointB \in Range(r.Points)
                        /\ SameXYZ(points[seg.PointA],
                                   Before.points[Before.segs[old.Segments[k]].PointA])
                        /\ SameXYZ(points[seg.PointB],
                                   Before.points[Before.segs[old.Segments[k]].PointB])
            /\ Selects(shapes[last.s].Points, old.Points,
                       PointsWhere(Before, last.s, NotFunc(last.f)))
            /\ Selects(shapes[last.s].Segments, old.Segments,
                       SegmentsWhere(Before, last.s, NotFunc(last.f)))
            /\ Len(r.Points) + Len(shapes[last.s].Points) = Len(old.Points)

\* A split that sent a segment to each side and dropped one that spanned both.
C7_Witness ==
    /\ last.op = "Split"
    /\ ~crashed
    /\ shapes[last.t].Segments # <<>>
    /\ shapes[last.s].Segments # <<>>
    /\ Len(shapes[last.t].Segments) + Len(shapes[last.s].Segments)
            < Len(Before.shapes[last.s].Segments)

\* The objects of the calls named op, in call order.
RECURSIVE CalledIdsFrom(_, _, _)
CalledIdsFrom(op, i, ids) ==
    IF i > Len(calls) THEN ids
    ELSE CalledIdsFrom(op, i + 1, IF calls[i].op = op THEN Append(ids, calls[i].id) ELSE ids)

CalledIds(op) == CalledIdsFrom(op, 1, <<>>)

\* The segment being stroked at call i: the object of the last Segment.Stroke
\* entered before call i.
StrokedAt(i) ==
    calls[CHOOSE j \in 1..(i - 1) :
            /\ calls[j].op = "Segment.Stroke"
            /\ \A n \in (j + 1)..(i - 1) : calls[n].op # "Segment.Stroke"].id

\* All projections are done before anything else is called, the segments are
\* stroked in the order of Segments, and every line drawn joins the cached
\* projections of the endpoints of the segment being stroked.
StrokesInListOrder ==
    /\ \A i, j \in 1..Len(calls) :
            (calls[i].op = "Point.Project" /\ calls[j].op # "Point.Project") => i < j
    /\ CalledIds("Segment.Stroke") = shapes[last.s].Segments
    /\ \A i \in 1..Len(calls) :
            /\ calls[i].op = "MoveTo" =>
                    calls[i].args = <<points[segs[StrokedAt(i)].PointA].Px,
                                      points[segs[StrokedAt(i)].PointA].Py>>
            /\ calls[i].op = "LineTo" =>
                    calls[i].args = <<points[segs[StrokedAt(i)].PointB].Px,
                                      points[segs[StrokedAt(i)].PointB].Py>>

InClip(p) ==
    /\ world.NearZ <= points[p].Z + world.CZ
    /\ points[p].Z + world.CZ <= world.FarZ

\* The calls that draw a line.
LineCalls == { i \in 1..Len(calls) : calls[i].op \in {"MoveTo", "LineTo", "Stroke"} }

\* C11: Segment.Stroke, called on its own or by Shape.Stroke, issues MoveTo,
\* LineTo and Stroke on the context only when both endpoints of the segment
\* pass the visibility test; for a segment with an endpoint that is not
\* visible it issues none of the three.
C11_DrawsOnlyVisible ==
    last.op \in {"Segment.Stroke", "Stroke"} =>
        \A i \in LineCalls :
            /\ InClip(segs[StrokedAt(i)].PointA)
            /\ InClip(segs[StrokedAt(i)].PointB)

\* A shape has been stroked of which one segment was drawn and another, with
\* an endpoint beyond a clipping limit, was not.
C11_Witness ==
    /\ last.op = "Stroke"
    /\ LineCalls # {}
    /\ \E k \in Range(shapes[last.s].Segments) :
            /\ ~(InClip(segs[k].PointA) /\ InClip(segs[k].PointB))
            /\ \A i \in LineCalls : StrokedAt(i) # k

\* C12: when Segment.Stroke returns, the line width of the context is the
\* line width it had when the call began, whether or not the segment was
\* drawn and whether or not the width was scaled during the call.
C12_LineWidthRestored ==
    last.op = "Segment.Stroke" => context.LineWidth = Before.context.LineWidth

\* A segment has been drawn with a scaled line width that differs from the
\* width the context had before.
C12_Witness ==
    /\ last.op = "Segment.Stroke"
    /\ LineCalls # {}
    /\ \E i \in 1..Len(calls) :
            /\ calls[i].op = "SetLineWidth"
            /\ calls[i].args[1][2] # 0
            /\ ~Same(calls[i].args[1], Before.context.LineWidth)

\* C13: fog and water-level attenuation change the source colour of the
\* context for the duration of a draw only: after a stroked segment (stroked
\* on its own or by Shape.Stroke) and after RenderPoints the source colour is
\* the one the context had before.
C13_ColourRestored ==
    last.op \in {"Segment.Stroke", "Stroke", "RenderPoints"} =>
        context.Source = Before.context.Source

\* What the code does for point markers: RenderPoints brackets every marker
\* with Save and Restore and leaves the source colour as it was.
RenderPointsRestoresColour ==
    last.op = "RenderPoints" =>
        /\ context = Before.context
        /\ \A i \in 1..Len(calls) :
                calls[i].op = "FillCircle" =>
                    /\ i < Len(calls)
                    /\ calls[i + 1].op = "Restore"

\* Every FillCircle is at the projection of the point it marks under the
\* current camera, px = cameraX + x * scale and py = cameraY + y * scale, with
\* radius times scale, where scale = focalLength / (cameraZ + z).
MarkersAtProjections ==
    \A i \in 1..Len(calls) :
        calls[i].op = "FillCircle" =>
            LET p     == points[calls[i].id]
                scale == <<world.FL, world.CZ + p.Z>>
            IN  /\ Same(calls[i].args[1], Plus(Whole(world.CX), Times(Whole(p.X), scale)))
                /\ Same(calls[i].args[2], Plus(Whole(world.CY), Times(Whole(p.Y), scale)))
                /\ Same(calls[i].args[3], Times(Whole(last.a[1]), scale))

\* The markers follow the order of Points: whenever the marker of p precedes
\* the marker of q, an entry for p precedes an entry for q.
MarkersInListOrder ==
    LET ids == CalledIds("FillCircle")
        pl  == shapes[last.s].Points
    IN  \A i, j \in 1..Len(ids) :
            i < j => \E a, b \in 1..Len(pl) : a <= b /\ pl[a] = ids[i] /\ pl[b] = ids[j]

C15_VisibleInclusive ==
    last.op = "Point.Visible" =>
        calls[Len(calls)].args[1] =
            (/\ world.NearZ <= points[last.s].Z + world.CZ
             /\ points[last.s].Z + world.CZ <= world.FarZ)

\* Visible has been called twice under one camera: a point a unit below
\* nearClip was found not visible, then a point at nearClip visible.
C15_Witness ==
    /\ last.op = "Point.Visible"
    /\ nOps = 3
    /\ Len(calls) = 2
    /\ calls[1].op = "Point.Visible"
    /\ points[calls[1].id].Z + world.CZ = world.NearZ - 1
    /\ calls[1].args[1] = FALSE
    /\ points[calls[2].id].Z = 1
    /\ points[calls[2].id].Z + world.CZ = world.NearZ
    /\ calls[2].args[1] = TRUE

\* Visible has met the far limit: a point at farClip was found visible, or a
\* point a unit above it not visible.
VisibleAtFarClip ==
    /\ last.op = "Point.Visible"
    /\ \/ /\ points[last.s].Z + world.CZ = world.FarZ
          /\ calls[Len(calls)].args[1] = TRUE
       \/ /\ points[last.s].Z + world.CZ = world.FarZ + 1
          /\ calls[Len(calls)].args[1] = FALSE

\* C16: for a point with cameraZ + z # 0, Project writes scale = focalLength /
\* (cameraZ + z), px = cameraX + x * scale and py = cameraY + y * scale into
\* the point's cache, from the camera as it is at the call, and leaves x, y
\* and z as they were.
C16_ProjectFormula ==
    (last.op = "Point.Project" /\ world.CZ + points[last.s].Z # 0) =>
        LET p     == points[last.s]
            scale == <<world.FL, world.CZ + p.Z>>
        IN  /\ Same(p.Scaling, scale)
            /\ Same(p.Px, Plus(Whole(world.CX), Times(Whole(p.X), scale)))
            /\ Same(p.Py, Plus(Whole(world.CY), Times(Whole(p.Y), scale)))
            /\ SameXYZ(p, Before.points[last.s])

\* A point that had been projected has been projected again after the camera
\* moved off the axis, to another scale.
C16_Witness ==
    /\ last.op = "Point.Project"
    /\ world.CX # 0
    /\ world.CY # 0
    /\ points[last.s].X # 0
    /\ Before.points[last.s].Scaling # Zero
    /\ ~Same(Before.points[last.s].Scaling, points[last.s].Scaling)

\* C20: PointList.Get with a negative index counts backwards from the end: on
\* a list of length n, Get(-k) for 1 <= k <= n returns the point at position
\* n - k.
C20_GetFromEnd ==
    (/\ last.op = "Get"
     /\ last.a[1] < 0
     /\ -last.a[1] <= Len(shapes[last.s].Points)) =>
        /\ ~crashed
        /\ last.t = shapes[last.s].Points[Len(shapes[last.s].Points) + last.a[1] + 1]

\* What Get does: with an index from 0 to n - 1 it returns the point at that
\* position, and with any other index, a negative one included, it panics.
GetPanicsBelowZero ==
    last.op = "Get" =>
        IF last.a[1] \in 0..(Len(shapes[last.s].Points) - 1)
        THEN ~crashed /\ last.t = shapes[last.s].Points[last.a[1] + 1]
        ELSE crashed

(***************************************************************************)
(* Saving and loading.                                                     *)
(***************************************************************************)
\* The pairs of indices of the segments of shape s in heaps h, by position
\* of the end points in the points of s (-1 for a point that is not there).
SegmentPairs(h, s) ==
    [k \in 1..Len(h.shapes[s].Segments) |->
        <<SlicesIndex(h.shapes[s].Points, h.segs[h.shapes[s].Segments[k]].PointA),
          SlicesIndex(h.shapes[s].Points, h.segs[h.shapes[s].Segments[k]].PointB)>>]

\* Shape t of heaps g has as many points as shape s of heaps h, with the same
\* coordinates in the same order, and as many segments, joining the same
\* pairs of indices.
SameShape(h, s, g, t) ==
    /\ Len(g.shapes[t].Points) = Len(h.shapes[s].Points)
    /\ \A i \in 1..Len(h.shapes[s].Points) :
          LET p == h.points[h.shapes[s].Points[i]]
              q == g.points[g.shapes[t].Points[i]]
          IN  Same(p.X, q.X) /\ Same(p.Y, q.Y) /\ Same(p.Z, q.Z)
    /\ SegmentPairs(g, t) = SegmentPairs(h, s)

\* The shapes whose Save writes the file that was loaded.
SavedShapes ==
    { S \in 1..Len(Before.shapes) : file.exists /\ file.lines = SaveLines(Before, S) }

\* C17: for every shape S, loading the file written by S.Save yields a shape
\* with the same number of points carrying the same coordinates in the same
\* order and the same number of segments, the k-th joining the same pair of
\* point indices as the k-th segment of S.
C17_RoundTrip ==
    last.op = "LoadShape" =>
        \A S \in SavedShapes :
            /\ ~crashed
            /\ last.t # 0
            /\ SameShape(Before, S, Now, last.t)

\* A coordinate that has no more than six digits after the point.
SixDigits(v) == Same(ParseFloat(SprintfF(v)).val, v)

\* Every segment of shape s joins two points of s.
SegmentsJoinPoints(h, s) ==
    \A k \in 1..Len(h.shapes[s].Segments) :
        /\ SegmentPairs(h, s)[k][1] >= 0
        /\ SegmentPairs(h, s)[k][2] >= 0

\* What Save and LoadShape do: the shape comes back when its coordinates
\* have no more than six digits after the point and its segments join points
\* of the shape.
RoundTripOfSixDigits ==
    last.op = "LoadShape" =>
        \A S \in SavedShapes :
            (/\ SegmentsJoinPoints(Before, S)
             /\ \A i \in 1..Len(Before.shapes[S].Points) :
                   LET p == Before.points[Before.shapes[S].Points[i]]
                   IN  SixDigits(p.X) /\ SixDigits(p.Y) /\ SixDigits(p.Z)) =>
                /\ ~crashed
                /\ last.t # 0
                /\ SameShape(Before, S, Now, last.t)

\* A shape with a segment has come back from its file.
RoundTripReached ==
    /\ last.op = "LoadShape"
    /\ \E S \in SavedShapes :
          /\ Len(Before.shapes[S].Segments) > 0
          /\ last.t # 0
          /\ SameShape(Before, S, Now, last.t)

\* The layout of a file: the number of points its first line gives, and the
\* lines that hold coordinates and indices, as far as the file goes.
PointCount(lines) ==
    LET n == ParseIntLine(ScanText(lines, 1))
    IN  IF n.ok /\ n.val > 0 THEN n.val ELSE 0

CoordLines(lines) ==
    IF ParseIntLine(ScanText(lines, 1)).ok
    THEN { i \in 2..(1 + PointCount(lines)) : i <= Len(lines) }
    ELSE {}

IndexLines(lines) ==
    LET n == ParseIntLine(ScanText(lines, 2 + PointCount(lines)))
    IN  IF ParseIntLine(ScanText(lines, 1)).ok /\ n.ok
        THEN { i \in (3 + PointCount(lines))..(2 + PointCount(lines) + n.val) :
                 i <= Len(lines) }
        ELSE {}

WellFormedCoords(line) ==
    /\ Len(line) >= 3
    /\ \A j \in 1..3 : line[j].kind \in {"int", "dec"}

WellFormedIndices(line) ==
    /\ Len(line) >= 2
    /\ \A j \in 1..2 : line[j].kind = "int"

\* A segment line of the file names an index outside [0, point count).
NamesIndexOutside(lines) ==
    \E i \in IndexLines(lines) :
        /\ WellFormedIndices(lines[i])
        /\ \E j \in 1..2 : lines[i][j].val \notin 0..(PointCount(lines) - 1)

\* C18: LoadShape returns an error and no shape whenever a segment line names
\* an index outside [0, point count), and on every error the shape returned is
\* nil.
C18_OutsideIndexIsError ==
    last.op = "LoadShape" =>
        /\ (file.exists /\ NamesIndexOutside(file.lines)) =>
               (~crashed /\ last.a = <<TRUE>> /\ last.t = 0)
        /\ last.a = <<TRUE>> => last.t = 0

\* What LoadShape does: an index outside [0, point count) is an error with no
\* shape where every line before it has the fields it needs.
OutsideIndexAfterFullLines ==
    (/\ last.op = "LoadShape"
     /\ file.exists
     /\ NamesIndexOutside(file.lines)
     /\ \A i \in CoordLines(file.lines) : Len(file.lines[i]) >= 3
     /\ \A i \in IndexLines(file.lines) : Len(file.lines[i]) >= 2) =>
        (~crashed /\ last.a = <<TRUE>> /\ last.t = 0)

\* A file whose only fault is an index that is too large has been refused.
OutsideIndexRefused ==
    /\ last.op = "LoadShape"
    /\ file.exists
    /\ NamesIndexOutside(file.lines)
    /\ \A i \in CoordLines(file.lines) : WellFormedCoords(file.lines[i])
    /\ last.a = <<TRUE>>
    /\ ~crashed

\* A coordinate line or an index line of the file is malformed.
HasMalformedLine(lines) ==
    \/ \E i \in CoordLines(lines) : ~WellFormedCoords(lines[i])
    \/ \E i \in IndexLines(lines) : ~WellFormedIndices(lines[i])

\* C19: every malformed coordinate or index line, a line with fewer fields
\* than required included, makes LoadShape return an error; LoadShape never
\* crashes.
C19_MalformedIsError ==
    last.op = "LoadShape" =>
        /\ ~crashed
        /\ (file.exists /\ HasMalformedLine(file.lines)) => last.a = <<TRUE>>

\* What LoadShape does: it panics only on a line with too few fields, and a
\* malformed line with all its fields is an error.
PanicsOnShortLines ==
    last.op = "LoadShape" =>
        /\ crashed =>
              \/ \E i \in CoordLines(file.lines) : Len(file.lines[i]) < 3
              \/ \E i \in IndexLines(file.lines) : Len(file.lines[i]) < 2
        /\ (/\ file.exists
            /\ HasMalformedLine(file.lines)
            /\ \A i \in CoordLines(file.lines) : Len(file.lines[i]) >= 3
            /\ \A i \in IndexLines(file.lines) : Len(file.lines[i]) >= 2) =>
               (~crashed /\ last.a = <<TRUE>>)

\* A line with an unreadable field and all its fields has been refused.
MalformedRefused ==
    /\ last.op = "LoadShape"
    /\ file.exists
    /\ \E i \in CoordLines(file.lines) :
          Len(file.lines[i]) >= 3 /\ ~WellFormedCoords(file.lines[i])
    /\ last.a = <<TRUE>>
    /\ ~crashed

(***************************************************************************)
(* Interpolation, rotation, scaling, sorting.                              *)
(***************************************************************************)
\* C21: PointList.Lerp called with lists of different lengths stops the
\* program before any coordinate of any point has been modified.
C21_LerpFatalBeforeWrite ==
    (/\ last.op = "Lerp"
     /\ Len(Before.shapes[last.s].Points) # Len(Before.shapes[last.t].Points)) =>
        /\ crashed
        /\ points = Before.points

\* Lerp has been called on a list of two points towards a list of one.
C21_Witness ==
    /\ last.op = "Lerp"
    /\ Len(Before.shapes[last.s].Points) = 2
    /\ Len(Before.shapes[last.t].Points) = 1
    /\ crashed

\* What Lerp does with lists of the same length: every point of the list has
\* moved the fraction t of the way, once for every entry that lists it.
LerpMovesHalfWay ==
    (/\ last.op = "Lerp"
     /\ last.s # last.t
     /\ Len(Before.shapes[last.s].Points) = Len(Before.shapes[last.t].Points)
     /\ \A i \in 1..Len(shapes[last.s].Points) :
          Occurrences(shapes[last.s].Points, shapes[last.s].Points[i]) = 1) =>
        /\ ~crashed
        /\ \A i \in 1..Len(shapes[last.s].Points) :
             LET p == points[shapes[last.s].Points[i]]
                 a == Before.points[shapes[last.s].Points[i]]
                 b == Before.points[shapes[last.t].Points[i]]
             IN  /\ Same(Sum(p.X, p.X), Sum(a.X, b.X))
                 /\ Same(Sum(p.Y, p.Y), Sum(a.Y, b.Y))
                 /\ Same(Sum(p.Z, p.Z), Sum(a.Z, b.Z))

\* The points and the shapes before the last operation, as the operations
\* take them.
BeforeMem == [points |-> Before.points, shapes |-> Before.shapes]

\* C22: Rotate(rx, ry, rz) on a point, a point list or a shape gives the same
\* coordinates as RotateX(rx) followed by RotateY(ry) followed by RotateZ(rz).
C22_RotateIsXYZ ==
    last.op = "Rotate" =>
        points = RotateZ(RotateY(RotateX(BeforeMem, last.s, last.a[1]),
                                 last.s, last.a[2]),
                         last.s, last.a[3]).points

\* What Rotate does: every point the list holds once is rotated about x, then
\* y, then z, and a point the list holds twice is taken through the three
\* rotations twice.
RotatesEveryEntry ==
    last.op = "Rotate" =>
        \A i \in 1..Len(shapes[last.s].Points) :
            LET p   == shapes[last.s].Points[i]
                xyz == PointRotateZ(PointRotateY(PointRotateX(Before.points[p], last.a[1]),
                                                 last.a[2]), last.a[3])
                n   == Occurrences(shapes[last.s].Points, p)
            IN  /\ n = 1 => points[p] = xyz
                /\ n = 2 =>
                     points[p] = PointRotateZ(PointRotateY(PointRotateX(xyz, last.a[1]),
                                                           last.a[2]), last.a[3])

\* A list without a repeated point has been rotated to where the three
\* rotations in the order z, y, x would not have taken it.
RotateOrderMatters ==
    /\ last.op = "Rotate"
    /\ \A i \in 1..Len(shapes[last.s].Points) :
          Occurrences(shapes[last.s].Points, shapes[last.s].Points[i]) = 1
    /\ points = RotateZ(RotateY(RotateX(BeforeMem, last.s, last.a[1]),
                                last.s, last.a[2]), last.s, last.a[3]).points
    /\ points # RotateX(RotateY(RotateZ(BeforeMem, last.s, last.a[3]),
                                last.s, last.a[2]), last.s, last.a[1]).points

\* C23: Point.ScaledZ(scale) returns a new point whose z is the receiver's z
\* times scale and whose x and y equal the receiver's, and leaves the
\* receiver unchanged.
C23_ScaledZScalesZ ==
    last.op = "ScaledZ" =>
        /\ last.t \notin 1..Len(Before.points)
        /\ Same(points[last.t].Z, Times(Before.points[last.s].Z, last.a[1]))
        /\ Same(points[last.t].X, Before.points[last.s].X)
        /\ Same(points[last.t].Y, Before.points[last.s].Y)
        /\ points[last.s] = Before.points[last.s]

\* What ScaledZ does: the new point has the receiver's y times scale and the
\* receiver's x and z; the receiver and every other point are unchanged.
ScaledZScalesY ==
    last.op = "ScaledZ" =>
        /\ last.t = Len(Before.points) + 1
        /\ Len(points) = Len(Before.points) + 1
        /\ Same(points[last.t].Y, Times(Before.points[last.s].Y, last.a[1]))
        /\ Same(points[last.t].X, Before.points[last.s].X)
        /\ Same(points[last.t].Z, Before.points[last.s].Z)
        /\ \A p \in 1..Len(Before.points) : points[p] = Before.points[p]

\* C24: PointList.AddRandomPointOnTorus and PointList.AddRandomPointInTorus
\* terminate and each append exactly one new point to the list.
C24_TorusAppendsOne ==
    last.op \in {"AddRandomPointOnTorus", "AddRandomPointInTorus"} =>
        /\ ~crashed
        /\ Len(shapes[last.s].Points) = Len(Before.shapes[last.s].Points) + 1
        /\ shapes[last.s].Points[Len(shapes[last.s].Points)] \notin 1..Len(Before.points)

\* What the two methods do: the program is stopped and neither a point nor an
\* entry of the list has been added.
TorusOverflowsStack ==
    last.op \in {"AddRandomPointOnTorus", "AddRandomPointInTorus"} =>
        /\ crashed
        /\ points = Before.points
        /\ shapes = Before.shapes

\* The list of the last Sort before and after it, and the coordinate sorted by.
SortedOld == Before.shapes[last.s].Points

SortedNew == shapes[last.s].Points

SortKey(p) == Coordinate(points[p], last.a[1])

\* The new list holds the point objects of the old one, each as often, in the
\* order of the coordinate: non-decreasing when ascending, else non-increasing.
SortedPermutation ==
    /\ ~crashed
    /\ points = Before.points
    /\ Len(SortedNew) = Len(SortedOld)
    /\ \A p \in 1..Len(points) : Occurrences(SortedNew, p) = Occurrences(SortedOld, p)
    /\ \A i \in 1..Len(SortedNew), j \in 1..Len(SortedNew) :
          i < j => IF last.a[2]
                   THEN ~Less(SortKey(SortedNew[j]), SortKey(SortedNew[i]))
                   ELSE ~Less(SortKey(SortedNew[i]), SortKey(SortedNew[j]))

\* Two different points with equal values of the coordinate, each listed
\* once, are in the new list in the order they had in the old one.
KeepsOrderOfEquals ==
    \A i \in 1..Len(SortedOld), j \in 1..Len(SortedOld) :
        (/\ i < j
         /\ SortedOld[i] # SortedOld[j]
         /\ Occurrences(SortedOld, SortedOld[i]) = 1
         /\ Occurrences(SortedOld, SortedOld[j]) = 1
         /\ Same(SortKey(SortedOld[i]), SortKey(SortedOld[j]))) =>
            SlicesIndex(SortedNew, SortedOld[i]) < SlicesIndex(SortedNew, SortedOld[j])

\* C25: SortX, SortY and SortZ leave the list a permutation of its previous
\* point objects ordered by the chosen coordinate, and the ordering is stable:
\* points with equal values keep their previous relative order.
C25_SortStable ==
    last.op = "Sort" => (SortedPermutation /\ KeepsOrderOfEquals)

\* What the sorts do: the list is a permutation ordered by the coordinate;
\* sorted descending, points with equal values keep their order, and sorted
\* ascending they come out in the reverse of their order.
SortReversesEquals ==
    last.op = "Sort" =>
        /\ SortedPermutation
        /\ ~last.a[2] => KeepsOrderOfEquals
        /\ last.a[2] =>
             \A i \in 1..Len(SortedOld), j \in 1..Len(SortedOld) :
                (/\ i < j
                 /\ SortedOld[i] # SortedOld[j]
                 /\ Occurrences(SortedOld, SortedOld[i]) = 1
                 /\ Occurrences(SortedOld, SortedOld[j]) = 1
                 /\ Same(SortKey(SortedOld[i]), SortKey(SortedOld[j]))) =>
                    SlicesIndex(SortedNew, SortedOld[j]) < SlicesIndex(SortedNew, SortedOld[i])

\* A list that was out of order has been put in order.
SortReorders ==
    /\ last.op = "Sort"
    /\ SortedNew # SortedOld
    /\ \E i \in 1..Len(SortedOld), j \in 1..Len(SortedOld) :
          i < j /\ Less(SortKey(SortedOld[j]), SortKey(SortedOld[i])) /\ last.a[2]

(***************************************************************************)
(* Shading.                                                                *)
(***************************************************************************)
\* A factor mapped linearly from 1 at lo to 0 at hi (lo < hi) and clamped, for
\* a quotient v.
Falloff(v, lo, hi) ==
    IF ~Less(Whole(lo), v) THEN Whole(1)
    ELSE IF ~Less(v, Whole(hi)) THEN Zero
    ELSE Quot(Plus(Whole(hi), <<-v[1], v[2]>>), Whole(hi - lo))

DepthFactor(v) == IF world.Fog THEN Falloff(v, world.NearFog, world.FarFog) ELSE Whole(1)

HeightFactor(y) ==
    IF world.Water THEN Falloff(y, world.WaterLevelTop, world.WaterLevelBottom) ELSE Whole(1)

InUnitInterval(f) == f[2] > 0 /\ ~Less(f, Zero) /\ ~Less(Whole(1), f)

\* The factor of the marker drawn by call i of the last RenderPoints: the
\* alpha of the colour set between Save and FillCircle, and 1 when no colour
\* was set.
MarkerShade(i) ==
    IF calls[i - 1].op = "SetSourceColor" THEN calls[i - 1].args[4] ELSE Whole(1)

MarkerCalls == { i \in 2..Len(calls) : calls[i].op = "FillCircle" }

\* The factor of the line drawn by the last Segment.Stroke: the alpha of the
\* colour it set.
LineShades == { calls[i].args[4] : i \in { j \in 1..Len(calls) : calls[j].op = "SetSourceColor" } }

\* The depth of the middle of segment seg, as a quotient.
MidDepth(seg) ==
    <<points[segs[seg].PointA].Z + points[segs[seg].PointB].Z + 2 * world.CZ, 2>>

\* C26: the shading factor computed for a draw is in [0,1], is 1 at or nearer
\* than fogNear and 0 at or beyond fogFar, is the minimum of the depth factor
\* and the height factor when fog and water level are both active, and is 1
\* when both are disabled.
C26_ShadeInUnitInterval ==
    /\ last.op = "RenderPoints" =>
         \A i \in MarkerCalls :
            LET f == MarkerShade(i)
                p == points[calls[i].id]
                v == Whole(p.Z + world.CZ)
                d == DepthFactor(v)
                h == HeightFactor(Whole(p.Y))
            IN  /\ InUnitInterval(f)
                /\ (world.Fog /\ ~world.Water /\ ~Less(Whole(world.NearFog), v)) => Same(f, Whole(1))
                /\ (world.Fog /\ ~Less(v, Whole(world.FarFog))) => Same(f, Zero)
                /\ Same(f, IF Less(h, d) THEN h ELSE d)
                /\ (~world.Fog /\ ~world.Water) => Same(f, Whole(1))
    /\ (last.op = "Segment.Stroke" /\ last.t = 1) =>
         /\ LineShades # {}
         /\ \A f \in LineShades :
              LET v == MidDepth(last.s)
              IN  /\ InUnitInterval(f)
                  /\ (world.Fog /\ ~Less(Whole(world.NearFog), v)) => Same(f, Whole(1))
                  /\ (world.Fog /\ ~Less(v, Whole(world.FarFog))) => Same(f, Zero)
                  /\ Same(f, DepthFactor(v))
                  /\ ~world.Fog => Same(f, Whole(1))

\* With fog and water level active, one marker has been drawn with the height
\* factor, the smaller of the two, and one with the depth factor.
C26_Witness ==
    /\ last.op = "RenderPoints"
    /\ world.Fog
    /\ world.Water
    /\ \E i \in MarkerCalls :
          /\ Less(HeightFactor(Whole(points[calls[i].id].Y)),
                  DepthFactor(Whole(points[calls[i].id].Z + world.CZ)))
          /\ Less(Zero, MarkerShade(i))
    /\ \E i \in MarkerCalls :
          /\ Less(DepthFactor(Whole(points[calls[i].id].Z + world.CZ)),
                  HeightFactor(Whole(points[calls[i].id].Y)))
          /\ Less(Zero, MarkerShade(i))

\* A marker has been drawn at a depth beyond fogFar, with the factor 0.
ShadeBeyondFar ==
    /\ last.op = "RenderPoints"
    /\ world.Fog
    /\ \E i \in MarkerCalls :
          /\ Less(Whole(world.FarFog), Whole(points[calls[i].id].Z + world.CZ))
          /\ Same(MarkerShade(i), Zero)

\* The other cases have been drawn: a marker between the fog planes, a marker
\* nearer than fogNear, and a line with fog and water level disabled.
ShadeBetweenPlanes ==
    /\ last.op = "RenderPoints"
    /\ world.Fog
    /\ \E i \in MarkerCalls : Less(Zero, MarkerShade(i)) /\ Less(MarkerShade(i), Whole(1))
    /\ \E i \in MarkerCalls :
          /\ Less(Whole(points[calls[i].id].Z + world.CZ), Whole(world.NearFog))
          /\ Same(MarkerShade(i), Whole(1))

LineDrawnOpaque ==
    /\ last.op = "Segment.Stroke"
    /\ last.t = 1
    /\ ~world.Fog
    /\ LineShades = { Whole(1) }

(***************************************************************************)
(* Subdivide, segment by segment.                                          *)
(***************************************************************************)
\* Segment k of the shape before the last Subdivide, its end points, and
\* count = round(length / maxDist): the n with n - 1/2 <= length / maxDist
\* < n + 1/2, compared by squares.
OldSegment(k) == Before.segs[Before.shapes[last.s].Segments[k]]

OldA(k) == Before.points[OldSegment(k).PointA]

OldB(k) == Before.points[OldSegment(k).PointB]

CountOf(k) ==
    LET d2 == Length2(OldA(k), OldB(k))
        m2 == last.a[1] * last.a[1]
    IN  CHOOSE n \in 0..(d2 + 1) :
            /\ 4 * d2 < (2 * n + 1) * (2 * n + 1) * m2
            /\ n > 0 => (2 * n - 1) * (2 * n - 1) * m2 <= 4 * d2

\* The number of segments that stand for segment k afterwards, and the
\* numbers of segments and of new points that stand before them.
PiecesOf(k) == IF CountOf(k) >= 1 THEN CountOf(k) ELSE 1

RECURSIVE PiecesBefore(_)
PiecesBefore(k) == IF k <= 1 THEN 0 ELSE PiecesBefore(k - 1) + PiecesOf(k - 1)

RECURSIVE NewPointsBefore(_)
NewPointsBefore(k) == IF k <= 1 THEN 0 ELSE NewPointsBefore(k - 1) + PiecesOf(k - 1) - 1

\* Piece i of segment k, and new point i of segment k.
Piece(k, i) == segs[shapes[last.s].Segments[PiecesBefore(k) + i]]

Interior(k, i) ==
    shapes[last.s].Points[Len(Before.shapes[last.s].Points) + NewPointsBefore(k) + i]

\* C27: Subdivide replaces each segment whose count = round(length/maxLength)
\* is at least 1 by a chain of exactly count segments from the original PointA
\* to the original PointB that share their interior points, and appends count
\* - 1 new evenly spaced points to Points; a segment of three times maxLength
\* becomes 3 segments of maxLength with 2 new points.
C27_SubdivideChains ==
    last.op = "Subdivide" =>
        LET n == Len(Before.shapes[last.s].Segments)
        IN  /\ Len(shapes[last.s].Segments) = PiecesBefore(n + 1)
            /\ Len(shapes[last.s].Points) =
                  Len(Before.shapes[last.s].Points) + NewPointsBefore(n + 1)
            /\ SubSeq(shapes[last.s].Points, 1, Len(Before.shapes[last.s].Points)) =
                  Before.shapes[last.s].Points
            /\ \A p \in 1..Len(Before.points) : points[p] = Before.points[p]
            /\ \A k \in 1..n :
                 CountOf(k) >= 1 =>
                   /\ Piece(k, 1).PointA = OldSegment(k).PointA
                   /\ Piece(k, CountOf(k)).PointB = OldSegment(k).PointB
                   /\ \A i \in 1..(CountOf(k) - 1) :
                        /\ Piece(k, i).PointB = Interior(k, i)
                        /\ Piece(k, i + 1).PointA = Interior(k, i)
                        /\ Interior(k, i) \notin 1..Len(Before.points)
                        /\ Occurrences(shapes[last.s].Points, Interior(k, i)) = 1
                        /\ CountOf(k) * (points[Interior(k, i)].X - OldA(k).X) =
                              i * (OldB(k).X - OldA(k).X)
                        /\ CountOf(k) * (points[Interior(k, i)].Y - OldA(k).Y) =
                              i * (OldB(k).Y - OldA(k).Y)
                        /\ CountOf(k) * (points[Interior(k, i)].Z - OldA(k).Z) =
                              i * (OldB(k).Z - OldA(k).Z)
                   /\ Length2(OldA(k), OldB(k)) = 9 * last.a[1] * last.a[1] =>
                        /\ CountOf(k) = 3
                        /\ \A i \in 1..3 :
                             Length2(points[Piece(k, i).PointA], points[Piece(k, i).PointB]) =
                                last.a[1] * last.a[1]

\* A segment of three times maxDist has been subdivided, next to one that
\* was not.
C27_Witness ==
    /\ last.op = "Subdivide"
    /\ \E k \in 1..Len(Before.shapes[last.s].Segments) :
          Length2(OldA(k), OldB(k)) = 9 * last.a[1] * last.a[1]
    /\ \E k \in 1..Len(Before.shapes[last.s].Segments) : CountOf(k) = 2
    /\ Len(shapes[last.s].Points) >= Len(Before.shapes[last.s].Points) + 3

(***************************************************************************)
(* ThinPoints returns.                                                     *)
(***************************************************************************)
\* C28: ThinPoints(take, skip) terminates for every pair of non-negative take
\* and skip and every point list, take = 0 and skip = 0 included: a call that
\* is under way returns.
C28_ThinPointsTerminates == (running.pc # "idle") ~> (running.pc = "idle")

\* A call that takes or skips at least one point, or runs on an empty list,
\* returns.
ThinPointsReturnsOnProgress ==
    (/\ running.pc # "idle"
     /\ running.take > 0 \/ running.skip > 0 \/ running.max = 0)
        ~> (running.pc = "idle")

\* ThinPoints(0, 0) on a list that is not empty never reaches its return.
ThinPointsSpins ==
    (running.take = 0 /\ running.skip = 0 /\ running.max > 0) =>
        /\ running.pc \in {"for", "take", "skip"}
        /\ running.i = 0
        /\ running.points = <<>>

\* ThinPoints(0, 0) has come round its outer loop with nothing changed.
SpinReached ==
    /\ running.pc = "skip"
    /\ running.take = 0
    /\ running.skip = 0
    /\ running.max = 3

\* The call that returns leaves what the loops of ThinPoints compute at once.
ReturnsThinOuter ==
    running.pc = "return" =>
        running.points =
            ThinOuter(shapes[running.s].Points, 0, <<>>, running.take, running.skip)

\* ThinPoints(0, 0) has returned from an empty list.
EmptyListReturned ==
    /\ last.op = "ThinPoints"
    /\ last.a = <<0, 0>>
    /\ Before.shapes[last.s].Points = <<>>

(***************************************************************************)
(* Points listed more than once.                                           *)
(***************************************************************************)
\* No point object occurs twice in the list.
ListedOnce(list) == \A i, j \in 1..Len(list) : list[i] = list[j] => i = j

\* C29: no point object occurs more than once in a shape's Points, so a
\* Translate(tx, ty, tz) of the shape changes each of its points by exactly
\* (tx, ty, tz).
C29_ListedOnceMovedOnce ==
    /\ \A s \in ShapeIds : ListedOnce(shapes[s].Points)
    /\ last.op = "Translate" =>
          \A i \in 1..Len(shapes[last.s].Points) :
              LET p == shapes[last.s].Points[i]
              IN  /\ points[p].X = Before.points[p].X + last.a[1]
                  /\ points[p].Y = Before.points[p].Y + last.a[2]
                  /\ points[p].Z = Before.points[p].Z + last.a[3]

\* A shape comes to list a point twice only by AddPoint or AddShape.
ListedTwiceByAdding ==
    \A s \in ShapeIds :
        (/\ ~ListedOnce(shapes[s].Points)
         /\ s \in 1..Len(Before.shapes) => ListedOnce(Before.shapes[s].Points))
            => last.op \in {"AddPoint", "AddShape"}

\* AddPoint has listed a point of the shape a second time, and Translate has
\* then moved it by twice its arguments.
MovedTwice ==
    /\ last.op = "Translate"
    /\ \E i \in 1..Len(shapes[last.s].Points) :
          LET p == shapes[last.s].Points[i]
          IN  /\ Occurrences(shapes[last.s].Points, p) = 2
              /\ points[p].X = Before.points[p].X + 2 * last.a[1]
              /\ points[p].Y = Before.points[p].Y + 2 * last.a[2]
              /\ points[p].Z = Before.points[p].Z + 2 * last.a[3]

(***************************************************************************)
(* The coordinates that Shape.Stroke draws with.                           *)
(***************************************************************************)
\* Call i hands the context the projection of point p as the camera stands.
DrawsProjectionOf(i, p) ==
    calls[i].args = <<PointProject(world, points[p]).Px, PointProject(world, points[p]).Py>>

\* C30: for every line that Shape.Stroke draws, the screen coordinates passed
\* to MoveTo and LineTo are the projection of that endpoint's current x, y, z
\* under the camera state in force at that Stroke call; a projection cached
\* before a later transform or camera change is never drawn.
C30_DrawsCurrentProjections ==
    last.op = "Stroke" =>
        \A i \in 1..Len(calls) :
            /\ calls[i].op = "MoveTo" => DrawsProjectionOf(i, segs[StrokedAt(i)].PointA)
            /\ calls[i].op = "LineTo" => DrawsProjectionOf(i, segs[StrokedAt(i)].PointB)

\* An endpoint that the stroked shape lists in Points is drawn at its current
\* projection.
ListedEndpointsDrawnCurrent ==
    last.op = "Stroke" =>
        \A i \in 1..Len(calls) :
            /\ (/\ calls[i].op = "MoveTo"
                /\ segs[StrokedAt(i)].PointA \in Range(shapes[last.s].Points))
                    => DrawsProjectionOf(i, segs[StrokedAt(i)].PointA)
            /\ (/\ calls[i].op = "LineTo"
                /\ segs[StrokedAt(i)].PointB \in Range(shapes[last.s].Points))
                    => DrawsProjectionOf(i, segs[StrokedAt(i)].PointB)

\* A line has been drawn to an endpoint that the shape no longer lists, at
\* coordinates that are not its projection.
StaleProjectionDrawn ==
    /\ last.op = "Stroke"
    /\ \E i \in 1..Len(calls) :
          /\ calls[i].op = "LineTo"
          /\ segs[StrokedAt(i)].PointB \notin Range(shapes[last.s].Points)
          /\ ~DrawsProjectionOf(i, segs[StrokedAt(i)].PointB)

====
